---- MODULE Spec2Model ----
(***************************************************************************)
(* Customer analytics dashboard: the field-inference and segmentation      *)
(* pipeline of AnalyticsDashboard (the useMemo callback that maps the      *)
(* `data` prop to `insights`), in its k-means build                        *)
(* (src/src/components/AnalyticsDashboard.tsx, second half) and its RFM    *)
(* build (src/src/pages/Landing.tsx), driven by the Index page's           *)
(* handleFileUpload.                                                       *)
(*                                                                         *)
(* Strings are sequences of one-character strings, so that toLowerCase,    *)
(* includes, parseFloat and the string-to-number conversion are computed   *)
(* character by character.  JavaScript numbers are IEEE-754 doubles with   *)
(* round-to-nearest-even arithmetic on 53-bit mantissas; the mantissas are *)
(* natural numbers of any size, kept as digit sequences.                   *)
(***************************************************************************)
EXTENDS Integers, Sequences, FiniteSets, TLC

VARIABLES
    strategy,     \* which build of AnalyticsDashboard is mounted: "kmeans" or "rfm"
    data,         \* the dashboard's `data` prop (Index's customerData)
    insights,     \* the value of the useMemo callback for `data`
    memo,         \* the local constants of that callback's last run
    uploadedFile, \* FileUpload's uploadedFile: the File shown as loaded, or null
    isLoading,    \* FileUpload's isLoading
    reading,      \* the Files of the handleFile calls that await file.text()
    toasts        \* the notifications raised by the latest handler

vars == <<strategy, data, insights, memo, uploadedFile, isLoading, reading, toasts>>

----------------------------------------------------------------------------
(* Generic helpers *)

Abs(x) == IF x < 0 THEN -x ELSE x

Sgn(x) == IF x < 0 THEN -1 ELSE IF x > 0 THEN 1 ELSE 0

RECURSIVE Pow10(_)
Pow10(e) == IF e = 0 THEN 1 ELSE 10 * Pow10(e - 1)

Range(s) == {s[i] : i \in 1..Len(s)}

----------------------------------------------------------------------------
(* Natural numbers of any size: the sequence of their digits in base       *)
(* LimbBase, lowest first, without leading zero digits (0 is <<>>).        *)

LimbBits == 13

LimbBase == 2 ^ LimbBits

RECURSIVE Pow2(_)
Pow2(e) == IF e = 0 THEN 1 ELSE 2 * Pow2(e - 1)

RECURSIVE BitLength(_)
BitLength(v) == IF v = 0 THEN 0 ELSE 1 + BitLength(v \div 2)

RECURSIVE BigFromInt(_)
BigFromInt(i) ==
    IF i = 0 THEN <<>> ELSE <<i % LimbBase>> \o BigFromInt(i \div LimbBase)

\* The value of a number below 2^31
RECURSIVE BigToInt(_)
BigToInt(x) == IF x = <<>> THEN 0 ELSE x[1] + LimbBase * BigToInt(Tail(x))

RECURSIVE BigTrim(_)
BigTrim(x) ==
    IF x # <<>> /\ x[Len(x)] = 0 THEN BigTrim(SubSeq(x, 1, Len(x) - 1)) ELSE x

BigDigit(x, i) == IF i <= Len(x) THEN x[i] ELSE 0

\* x + y + c from digit i on
RECURSIVE BigAddFrom(_, _, _, _)
BigAddFrom(x, y, i, c) ==
    IF i > Len(x) /\ i > Len(y) THEN (IF c = 0 THEN <<>> ELSE <<c>>)
    ELSE <<(BigDigit(x, i) + BigDigit(y, i) + c) % LimbBase>>
            \o BigAddFrom(x, y, i + 1, (BigDigit(x, i) + BigDigit(y, i) + c) \div LimbBase)

BigAdd(x, y) == BigAddFrom(x, y, 1, 0)

\* x - y - b from digit i on, for x >= y
RECURSIVE BigSubFrom(_, _, _, _)
BigSubFrom(x, y, i, b) ==
    IF i > Len(x) THEN <<>>
    ELSE <<(x[i] - BigDigit(y, i) - b) % LimbBase>>
            \o BigSubFrom(x, y, i + 1, IF x[i] - BigDigit(y, i) - b < 0 THEN 1 ELSE 0)

BigSub(x, y) == BigTrim(BigSubFrom(x, y, 1, 0))

\* The sign of x - y, comparing the digits from i down
RECURSIVE BigCompareFrom(_, _, _)
BigCompareFrom(x, y, i) ==
    IF i = 0 THEN 0
    ELSE IF x[i] # y[i] THEN Sgn(x[i] - y[i])
    ELSE BigCompareFrom(x, y, i - 1)

BigCompare(x, y) ==
    IF Len(x) # Len(y) THEN Sgn(Len(x) - Len(y)) ELSE BigCompareFrom(x, y, Len(x))

\* x * f + c from digit i on, for 0 <= f < 2^17
RECURSIVE BigScaleFrom(_, _, _, _)
BigScaleFrom(x, f, i, c) ==
    IF i > Len(x) THEN BigFromInt(c)
    ELSE <<(x[i] * f + c) % LimbBase>>
            \o BigScaleFrom(x, f, i + 1, (x[i] * f + c) \div LimbBase)

BigScale(x, f) == IF f = 0 THEN <<>> ELSE BigScaleFrom(x, f, 1, 0)

\* x * LimbBase^q
BigShiftDigits(x, q) == IF x = <<>> THEN <<>> ELSE [i \in 1..q |-> 0] \o x

\* x * y, the digits of x from i on
RECURSIVE BigMulFrom(_, _, _)
BigMulFrom(x, y, i) ==
    IF i > Len(x) THEN <<>>
    ELSE BigAdd(BigScale(y, x[i]), BigShiftDigits(BigMulFrom(x, y, i + 1), 1))

BigMul(x, y) == BigMulFrom(x, y, 1)

BigBitLength(x) ==
    IF x = <<>> THEN 0 ELSE LimbBits * (Len(x) - 1) + BitLength(x[Len(x)])

\* x * 2^bits
BigShiftLeft(x, bits) ==
    BigShiftDigits(BigScale(x, Pow2(bits % LimbBits)), bits \div LimbBits)

\* x \div f from digit i down with remainder r carried in, for 0 < f < 2^17:
\* the quotient's digits i..1 (lowest first)
RECURSIVE BigShortDivFrom(_, _, _, _)
BigShortDivFrom(x, f, i, r) ==
    IF i = 0 THEN <<>>
    ELSE BigShortDivFrom(x, f, i - 1, (r * LimbBase + x[i]) % f)
            \o <<(r * LimbBase + x[i]) \div f>>

BigShortDiv(x, f) == BigTrim(BigShortDivFrom(x, f, Len(x), 0))

\* floor(x / 2^bits)
BigShiftRight(x, bits) ==
    IF bits \div LimbBits >= Len(x) THEN <<>>
    ELSE BigShortDiv(SubSeq(x, bits \div LimbBits + 1, Len(x)), Pow2(bits % LimbBits))

\* x mod 2^bits
BigLowBits(x, bits) == BigSub(x, BigShiftLeft(BigShiftRight(x, bits), bits))

BigIsOdd(x) == x # <<>> /\ x[1] % 2 = 1

\* The digit floor(r / y), searched downwards from the estimate q >= it
RECURSIVE BigQuotientDigit(_, _, _)
BigQuotientDigit(r, y, q) ==
    IF BigCompare(BigScale(y, q), r) <= 0 THEN q ELSE BigQuotientDigit(r, y, q - 1)

\* The estimate of floor(r / y) from the two leading digits of r and the
\* leading digit of y, for r < y * LimbBase and y's leading digit at least
\* LimbBase / 2: at most 2 above the digit (Knuth, TAOCP 4.3.1, Theorem B).
BigQuotientEstimate(r, y) ==
    IF (BigDigit(r, Len(y) + 1) * LimbBase + BigDigit(r, Len(y))) \div y[Len(y)] < LimbBase
    THEN (BigDigit(r, Len(y) + 1) * LimbBase + BigDigit(r, Len(y))) \div y[Len(y)]
    ELSE LimbBase - 1

\* Long division of x by y, digit by digit from the highest: digit i of x is
\* brought down onto the remainder r, the quotient digit is found, and the
\* digits i-1..1 follow.  [q |-> quotient, r |-> remainder]
RECURSIVE BigDivFrom(_, _, _, _)
BigDivDigits(rest, q) == [q |-> rest.q \o <<q>>, r |-> rest.r]

BigDivStep(x, y, i, r, q) ==
    IF q = 0 THEN BigDivDigits(BigDivFrom(x, y, i - 1, r), 0)
    ELSE BigDivDigits(BigDivFrom(x, y, i - 1, BigSub(r, BigScale(y, q))), q)

BigDivBring(x, y, i, r) ==
    BigDivStep(x, y, i, r, BigQuotientDigit(r, y, BigQuotientEstimate(r, y)))

BigDivFrom(x, y, i, r) ==
    IF i = 0 THEN [q |-> <<>>, r |-> r]
    ELSE BigDivBring(x, y, i, BigTrim(<<x[i]>> \o r))

\* The division is done on x * 2^shift and y * 2^shift, where y's leading
\* digit is at least LimbBase / 2; the remainder comes out shifted.
BigDivShifted(res, shift) == [q |-> BigTrim(res.q), r |-> BigShiftRight(res.r, shift)]

BigDivNormal(x, y, shift) ==
    BigDivShifted(BigDivFrom(BigShiftLeft(x, shift), BigShiftLeft(y, shift),
                             Len(BigShiftLeft(x, shift)), <<>>), shift)

\* [q |-> x \div y, r |-> x % y] for y > 0
BigDivMod(x, y) == BigDivNormal(x, y, LimbBits - BitLength(y[Len(y)]))

\* floor(sqrt(x)) by Newton's iteration from a guess g >= floor(sqrt(x))
RECURSIVE BigSqrtFrom(_, _)
BigSqrtNext(x, g, next) == IF BigCompare(next, g) >= 0 THEN g ELSE BigSqrtFrom(x, next)

BigSqrtFrom(x, g) == BigSqrtNext(x, g, BigShiftRight(BigAdd(g, BigDivMod(x, g).q), 1))

BigSqrt(x) ==
    IF x = <<>> THEN <<>> ELSE BigSqrtFrom(x, BigShiftLeft(<<1>>, (BigBitLength(x) + 1) \div 2))

----------------------------------------------------------------------------
(* JavaScript numbers: IEEE-754 doubles.  A finite non-zero double is      *)
(* sign * mant * 2^expo with mant a 53-bit natural number; the sign of     *)
(* zero is not kept; subnormal numbers and overflow are out of range.      *)

Precision == 53

NaN == [kind |-> "nan", sign |-> 0, mant |-> <<>>, expo |-> 0]

PosInf == [kind |-> "inf", sign |-> 1, mant |-> <<>>, expo |-> 0]

NegInf == [kind |-> "inf", sign |-> -1, mant |-> <<>>, expo |-> 0]

Zero == [kind |-> "zero", sign |-> 0, mant |-> <<>>, expo |-> 0]

Infinite(sign) == IF sign = 0 THEN NaN ELSE IF sign > 0 THEN PosInf ELSE NegInf

IsNaN(a) == a.kind = "nan"

IsInf(a) == a.kind = "inf"

IsFiniteNum(a) == a.kind \in {"zero", "fin"}

Finite(sign, mant, expo) == [kind |-> "fin", sign |-> sign, mant |-> mant, expo |-> expo]

\* mant + 1 may have grown to 2^53
Carried(sign, mant, expo) ==
    IF BigBitLength(mant) > Precision
    THEN Finite(sign, BigShiftRight(mant, 1), expo + 1)
    ELSE Finite(sign, mant, expo)

\* Round to nearest, ties to even: head are the leading 53 bits, rest the
\* `cut` bits after them, sticky says that non-zero bits follow those.
RoundCut(sign, head, rest, half, sticky, expo) ==
    IF \/ BigCompare(rest, half) > 0
       \/ (rest = half /\ (sticky \/ BigIsOdd(head)))
    THEN Carried(sign, BigAdd(head, <<1>>), expo)
    ELSE Finite(sign, head, expo)

RoundLong(sign, x, expo, sticky, cut) ==
    RoundCut(sign, BigShiftRight(x, cut), BigLowBits(x, cut),
             BigShiftLeft(<<1>>, cut - 1), sticky, expo + cut)

RoundSized(sign, x, expo, sticky, length) ==
    IF length <= Precision
    THEN Finite(sign, BigShiftLeft(x, Precision - length), expo - (Precision - length))
    ELSE RoundLong(sign, x, expo, sticky, length - Precision)

\* The double nearest to sign * (x + f) * 2^expo, where 0 <= f < 1 and
\* sticky says f > 0 (then x has at least 55 bits).
Round(sign, x, expo, sticky) ==
    IF x = <<>> THEN Zero ELSE RoundSized(sign, x, expo, sticky, BigBitLength(x))

\* The double nearest to sign * (n / d) * 2^expo for natural numbers n, d > 0
RatioRounded(sign, res, expo) == Round(sign, res.q, expo, res.r # <<>>)

RatioShifted(sign, n, d, expo, shift) ==
    RatioRounded(sign, BigDivMod(BigShiftLeft(n, shift), d), expo - shift)

Ratio(sign, n, d, expo) ==
    IF n = <<>> THEN Zero
    ELSE RatioShifted(sign, n, d, expo,
                      IF Precision + 2 + BigBitLength(d) > BigBitLength(n)
                      THEN Precision + 2 + BigBitLength(d) - BigBitLength(n) ELSE 0)

\* The number i
Num(i) == Round(Sgn(i), BigFromInt(Abs(i)), 0, FALSE)

\* The decimal literal n/d (such as 0.15 = 15/100)
Decimal(n, d) == Ratio(Sgn(n), BigFromInt(Abs(n)), BigFromInt(d), 0)

Neg(a) == [kind |-> a.kind, sign |-> -a.sign, mant |-> a.mant, expo |-> a.expo]

\* sa * x + sb * y as [sign, mant], for signs sa, sb and x, y > 0
SignedSum(sa, x, sb, y) ==
    IF sa = sb THEN [sign |-> sa, mant |-> BigAdd(x, y)]
    ELSE IF BigCompare(x, y) >= 0 THEN [sign |-> sa, mant |-> BigSub(x, y)]
    ELSE [sign |-> sb, mant |-> BigSub(y, x)]

AddRounded(sum, expo) == Round(sum.sign, sum.mant, expo, FALSE)

\* a + b for finite non-zero a and b: the mantissas are aligned at the lower
\* exponent, added exactly, and the sum is rounded.
AddFinite(a, b) ==
    AddRounded(SignedSum(a.sign, BigShiftLeft(a.mant, IF a.expo > b.expo THEN a.expo - b.expo ELSE 0),
                         b.sign, BigShiftLeft(b.mant, IF b.expo > a.expo THEN b.expo - a.expo ELSE 0)),
               IF a.expo < b.expo THEN a.expo ELSE b.expo)

Add(a, b) ==
    IF IsNaN(a) \/ IsNaN(b) THEN NaN
    ELSE IF IsInf(a) /\ IsInf(b) THEN (IF a.sign = b.sign THEN a ELSE NaN)
    ELSE IF IsInf(a) \/ b = Zero THEN a
    ELSE IF IsInf(b) \/ a = Zero THEN b
    ELSE AddFinite(a, b)

Sub(a, b) == Add(a, Neg(b))

Mul(a, b) ==
    IF IsNaN(a) \/ IsNaN(b) THEN NaN
    ELSE IF IsInf(a) \/ IsInf(b) THEN Infinite(a.sign * b.sign)
    ELSE IF a = Zero \/ b = Zero THEN Zero
    ELSE Round(a.sign * b.sign, BigMul(a.mant, b.mant), a.expo + b.expo, FALSE)

Div(a, b) ==
    IF IsNaN(a) \/ IsNaN(b) THEN NaN
    ELSE IF IsInf(a) THEN (IF IsInf(b) THEN NaN ELSE Infinite(a.sign * (IF b = Zero THEN 1 ELSE b.sign)))
    ELSE IF IsInf(b) THEN Zero
    ELSE IF b = Zero THEN Infinite(a.sign)
    ELSE IF a = Zero THEN Zero
    ELSE Ratio(a.sign * b.sign, a.mant, b.mant, a.expo - b.expo)

\* The order of finite non-zero numbers of one sign by magnitude: both
\* mantissas have 53 bits
MagnitudeLess(a, b) ==
    \/ a.expo < b.expo
    \/ a.expo = b.expo /\ BigCompare(a.mant, b.mant) < 0

\* a < b; false when either is NaN.
Lt(a, b) ==
    IF IsNaN(a) \/ IsNaN(b) THEN FALSE
    ELSE IF a.sign # b.sign THEN a.sign < b.sign
    ELSE IF a.sign = 0 THEN FALSE
    ELSE IF IsInf(a) \/ IsInf(b)
         THEN (IsInf(b) /\ ~IsInf(a) /\ a.sign > 0) \/ (IsInf(a) /\ ~IsInf(b) /\ a.sign < 0)
    ELSE IF a.sign > 0 THEN MagnitudeLess(a, b)
    ELSE MagnitudeLess(b, a)

Gt(a, b) == Lt(b, a)

\* a === b on numbers: NaN equals nothing.
StrictEq(a, b) == ~IsNaN(a) /\ ~IsNaN(b) /\ a = b

\* x || 0 on a number: NaN and 0 are falsy.
OrZero(a) == IF IsNaN(a) \/ a = Zero THEN Zero ELSE a

\* The integer part and the fraction of |a| for a finite non-zero a with a
\* negative exponent: [whole, part, half], the fraction being part / (2 * half)
Split(a) ==
    [whole |-> BigShiftRight(a.mant, -a.expo),
     part  |-> BigLowBits(a.mant, -a.expo),
     half  |-> BigShiftLeft(<<1>>, -a.expo - 1)]

\* Math.round of a finite non-zero a with a negative exponent: the nearest
\* integer, a half going up (towards +Infinity).
RoundSplit(sign, s) ==
    Round(sign,
          IF BigCompare(s.part, s.half) > 0 \/ (sign > 0 /\ s.part = s.half)
          THEN BigAdd(s.whole, <<1>>) ELSE s.whole,
          0, FALSE)

\* Math.round
MathRound(a) ==
    IF a.kind # "fin" \/ a.expo >= 0 THEN a ELSE RoundSplit(a.sign, Split(a))

\* Math.floor of a finite non-zero a with a negative exponent
FloorSplit(sign, s) ==
    Round(sign, IF sign > 0 \/ s.part = <<>> THEN s.whole ELSE BigAdd(s.whole, <<1>>), 0, FALSE)

\* Math.floor
MathFloor(a) ==
    IF a.kind # "fin" \/ a.expo >= 0 THEN a ELSE FloorSplit(a.sign, Split(a))

\* The value of a double that is an integer below 2^31 in magnitude
IntegerOf(a) ==
    IF a.kind # "fin" THEN 0
    ELSE IF a.expo >= 0 THEN a.sign * BigToInt(BigShiftLeft(a.mant, a.expo))
    ELSE a.sign * BigToInt(BigShiftRight(a.mant, -a.expo))

\* Math.sqrt of a finite a > 0: a is mant * 2^(expo - shift) * 2^shift with
\* expo - shift even and mant * 2^shift of at least 110 bits, whose integer
\* square root has the 55 bits that rounding needs.
SqrtRounded(x, root, expo) == Round(1, root, expo, BigMul(root, root) # x)

SqrtShifted(x, expo) == SqrtRounded(x, BigSqrt(x), expo \div 2)

SqrtFinite(a, shift) == SqrtShifted(BigShiftLeft(a.mant, shift), a.expo - shift)

\* Math.sqrt
MathSqrt(a) ==
    IF IsNaN(a) \/ a.sign < 0 THEN NaN
    ELSE IF a.kind # "fin" THEN a
    ELSE SqrtFinite(a, IF a.expo % 2 = 0 THEN 58 ELSE 57)

\* Math.pow(a, 2)
Square(a) == Mul(a, a)

----------------------------------------------------------------------------
(* JavaScript strings and arrays *)

\* An array built by map or by a loop: its elements are computed once, when
\* the array is built.
Array(f) == f \o <<>>

UpperCase == <<"A", "B", "C", "D", "E", "F", "G", "H", "I", "J", "K", "L", "M",
               "N", "O", "P", "Q", "R", "S", "T", "U", "V", "W", "X", "Y", "Z">>

LowerCase == <<"a", "b", "c", "d", "e", "f", "g", "h", "i", "j", "k", "l", "m",
               "n", "o", "p", "q", "r", "s", "t", "u", "v", "w", "x", "y", "z">>

LowerChar(c) ==
    IF \E i \in 1..Len(UpperCase) : UpperCase[i] = c
    THEN LowerCase[CHOOSE i \in 1..Len(UpperCase) : UpperCase[i] = c]
    ELSE c

\* String.prototype.toLowerCase
toLowerCase(s) == Array([i \in 1..Len(s) |-> LowerChar(s[i])])

\* sub occurs in s at position p (1-based).
OccursAt(s, sub, p) ==
    /\ p + Len(sub) - 1 <= Len(s)
    /\ \A i \in 1..Len(sub) : s[p + i - 1] = sub[i]

\* String.prototype.includes
includes(s, sub) == \E p \in 1..(Len(s) - Len(sub) + 1) : OccursAt(s, sub, p)

DigitChars == <<"0", "1", "2", "3", "4", "5", "6", "7", "8", "9">>

IsDigit(c) == \E i \in 1..10 : DigitChars[i] = c

DigitVal(c) == (CHOOSE i \in 1..10 : DigitChars[i] = c) - 1

WhiteSpace == {" ", "\t", "\n", "\r"}

RECURSIVE TrimStart(_)
TrimStart(s) ==
    IF s # <<>> /\ Head(s) \in WhiteSpace THEN TrimStart(Tail(s)) ELSE s

RECURSIVE TrimEnd(_)
TrimEnd(s) ==
    IF s # <<>> /\ s[Len(s)] \in WhiteSpace
    THEN TrimEnd(SubSeq(s, 1, Len(s) - 1)) ELSE s

\* The first position >= i of s that holds no digit.
RECURSIVE DigitsEnd(_, _)
DigitsEnd(s, i) ==
    IF i <= Len(s) /\ IsDigit(s[i]) THEN DigitsEnd(s, i + 1) ELSE i

\* The value of the digits s[i..j-1] read as a decimal integer (0 when empty).
RECURSIVE DigitsVal(_, _, _)
DigitsVal(s, i, j) ==
    IF j <= i THEN 0 ELSE 10 * DigitsVal(s, i, j - 1) + DigitVal(s[j - 1])

InfinityWord == <<"I", "n", "f", "i", "n", "i", "t", "y">>

\* StrDecimalLiteral (ECMA-262 7.1.4.1) is read in stages, each passing on
\* what it found: sign, integer digits, fraction, exponent.  The result is
\* [end |-> the position after the longest literal prefix (1 when there is
\* none), kind |-> "nan", "inf" or "fin", and for "fin" the literal's value
\* sg * digits * 10^e10].
NoLiteral == [end |-> 1, kind |-> "nan", sg |-> 0, digits |-> 0, e10 |-> 0]

InfinityLiteral(sg, end) == [end |-> end, kind |-> "inf", sg |-> sg, digits |-> 0, e10 |-> 0]

DecimalLiteral(sg, digits, e10, end) ==
    [end |-> end, kind |-> "fin", sg |-> sg, digits |-> digits, e10 |-> e10]

\* The exponent digits end at eEnd; without a digit the exponent is no part of
\* the literal.
DecimalScaled(t, sg, digits, fracLen, mantEnd, eSg, eStart, eEnd) ==
    IF eEnd > eStart
    THEN DecimalLiteral(sg, digits, eSg * DigitsVal(t, eStart, eEnd) - fracLen, eEnd)
    ELSE DecimalLiteral(sg, digits, -fracLen, mantEnd)

DecimalExponentDigits(t, sg, digits, fracLen, mantEnd, eSg, eStart) ==
    DecimalScaled(t, sg, digits, fracLen, mantEnd, eSg, eStart, DigitsEnd(t, eStart))

DecimalExponentSign(t, sg, digits, fracLen, mantEnd, eSigned) ==
    DecimalExponentDigits(t, sg, digits, fracLen, mantEnd,
                          IF eSigned /\ t[mantEnd + 1] = "-" THEN -1 ELSE 1,
                          IF eSigned THEN mantEnd + 2 ELSE mantEnd + 1)

DecimalExponent(t, sg, digits, fracLen, mantEnd) ==
    IF mantEnd <= Len(t) /\ t[mantEnd] \in {"e", "E"}
    THEN DecimalExponentSign(t, sg, digits, fracLen, mantEnd,
                             mantEnd + 1 <= Len(t) /\ t[mantEnd + 1] \in {"+", "-"})
    ELSE DecimalLiteral(sg, digits, -fracLen, mantEnd)

\* The mantissa's digits are t[p..intEnd-1] and t[intEnd+1..fracEnd-1].
DecimalMantissa(t, sg, p, intEnd, fracLen, fracEnd) ==
    IF (intEnd - p) + fracLen = 0 THEN NoLiteral
    ELSE DecimalExponent(t, sg,
                         DigitsVal(t, p, intEnd) * Pow10(fracLen)
                            + DigitsVal(t, intEnd + 1, fracEnd),
                         fracLen, fracEnd)

DecimalFractionDigits(t, sg, p, intEnd, fracEnd) ==
    DecimalMantissa(t, sg, p, intEnd, fracEnd - (intEnd + 1), fracEnd)

DecimalFraction(t, sg, p, intEnd) ==
    IF intEnd <= Len(t) /\ t[intEnd] = "."
    THEN DecimalFractionDigits(t, sg, p, intEnd, DigitsEnd(t, intEnd + 1))
    ELSE DecimalMantissa(t, sg, p, intEnd, 0, intEnd)

DecimalUnsigned(t, sg, p) ==
    IF OccursAt(t, InfinityWord, p)
    THEN InfinityLiteral(sg, p + Len(InfinityWord))
    ELSE DecimalFraction(t, sg, p, DigitsEnd(t, p))

DecimalPrefix(t) ==
    IF t # <<>> /\ t[1] \in {"+", "-"}
    THEN DecimalUnsigned(t, IF t[1] = "-" THEN -1 ELSE 1, 2)
    ELSE DecimalUnsigned(t, 1, 1)

\* The double nearest to sg * digits * 10^e10 (digits and 10^|e10| below 2^31)
DecimalValue(sg, digits, e10) ==
    Ratio(sg, BigMul(BigFromInt(digits), BigFromInt(Pow10(IF e10 > 0 THEN e10 ELSE 0))),
          BigFromInt(Pow10(IF e10 < 0 THEN -e10 ELSE 0)), 0)

\* The Number value of a literal
LiteralValue(lit) ==
    IF lit.kind = "fin" THEN DecimalValue(lit.sg, lit.digits, lit.e10)
    ELSE IF lit.kind = "inf" THEN Infinite(lit.sg)
    ELSE NaN

\* parseFloat(string): the value of the longest numeric prefix after leading
\* white space, NaN when there is none.
parseFloat(s) == LiteralValue(DecimalPrefix(TrimStart(s)))

\* Number(string), the conversion isFinite applies to its argument: the whole
\* trimmed string must be a numeric literal; the empty string is 0.
WholeLiteral(t, lit) ==
    IF t = <<>> THEN DecimalLiteral(1, 0, 0, 1)
    ELSE IF lit.end = Len(t) + 1 THEN lit
    ELSE NoLiteral

TrimmedNumber(t) == LiteralValue(WholeLiteral(t, DecimalPrefix(t)))

ToNumber(s) == TrimmedNumber(TrimEnd(TrimStart(s)))

\* the global isFinite(value)
isFinite(s) == IsFiniteNum(ToNumber(s))

----------------------------------------------------------------------------
(* Records and Tables.  A record (a JavaScript object) is the sequence of   *)
(* its <<key, value>> properties in insertion order, which is the order    *)
(* Object.keys reports for keys that are not canonical array indices; a    *)
(* Table is a sequence of records.                                         *)

\* String(undefined): what parseFloat and isFinite see for a missing property.
Undefined == <<"u", "n", "d", "e", "f", "i", "n", "e", "d">>

ObjectKeys(row) == Array([i \in 1..Len(row) |-> row[i][1]])

HasKey(row, key) == \E i \in 1..Len(row) : row[i][1] = key

\* row[key]
Get(row, key) ==
    IF HasKey(row, key)
    THEN row[CHOOSE i \in 1..Len(row) : row[i][1] = key][2]
    ELSE Undefined

\* Array.prototype.findIndex, 1-based; 0 when x is not in s (-1 in JS).
IndexOf(s, x) ==
    IF \E i \in 1..Len(s) : s[i] = x
    THEN CHOOSE i \in 1..Len(s) : s[i] = x /\ \A j \in 1..(i - 1) : s[j] # x
    ELSE 0

\* Number.prototype.toString of a non-negative integer.
RECURSIVE NatToString(_)
NatToString(i) ==
    IF i < 10 THEN <<DigitChars[i + 1]>>
    ELSE NatToString(i \div 10) \o <<DigitChars[(i % 10) + 1]>>

\* String(i) of an integer.
IntToString(i) == IF i < 0 THEN <<"-">> \o NatToString(-i) ELSE NatToString(i)

----------------------------------------------------------------------------
(* Field Classifier: AnalyticsDashboard.tsx lines 431-446, 475-478 *)

kwEmail == <<"e", "m", "a", "i", "l">>
kwAmount == <<"a", "m", "o", "u", "n", "t">>
kwRevenue == <<"r", "e", "v", "e", "n", "u", "e">>
kwValue == <<"v", "a", "l", "u", "e">>
kwTotal == <<"t", "o", "t", "a", "l">>
kwDate == <<"d", "a", "t", "e">>
kwTime == <<"t", "i", "m", "e">>
kwCreated == <<"c", "r", "e", "a", "t", "e", "d">>
kwCustomer == <<"c", "u", "s", "t", "o", "m", "e", "r">>
kwUser == <<"u", "s", "e", "r">>
kwContact == <<"c", "o", "n", "t", "a", "c", "t">>
kwSales == <<"s", "a", "l", "e", "s">>
kwOrder == <<"o", "r", "d", "e", "r">>

\* const fields = Object.keys(sampleRow), sampleRow = data[0]
fields(d) == ObjectKeys(d[1])

IsEmailName(f) == includes(toLowerCase(f), kwEmail)

\* Variant: the last column whose name contains "email" instead of the first.
emailFieldLast(fs) ==
    LET hit == SelectSeq(fs, IsEmailName)
    IN  IF hit # <<>> /\ hit[Len(hit)] # <<>> THEN [defined |-> TRUE, name |-> hit[Len(hit)]]
        ELSE IF fs # <<>> THEN [defined |-> TRUE, name |-> fs[1]]
        ELSE [defined |-> FALSE, name |-> <<>>]

\* fields.find(f => f.toLowerCase().includes('email')) || fields[0];
\* [defined |-> FALSE] is undefined (no column at all).
emailField(fs) ==
    LET hit == SelectSeq(fs, IsEmailName)
    IN  IF hit # <<>> /\ hit[1] # <<>> THEN [defined |-> TRUE, name |-> hit[1]]
        ELSE IF fs # <<>> THEN [defined |-> TRUE, name |-> fs[1]]
        ELSE [defined |-> FALSE, name |-> <<>>]

\* Variant: the keyword "total" left out.
IsAmountNameShort(f) ==
    \/ includes(toLowerCase(f), kwAmount)
    \/ includes(toLowerCase(f), kwRevenue)
    \/ includes(toLowerCase(f), kwValue)

IsAmountName(f) ==
    \/ includes(toLowerCase(f), kwAmount)
    \/ includes(toLowerCase(f), kwRevenue)
    \/ includes(toLowerCase(f), kwValue)
    \/ includes(toLowerCase(f), kwTotal)

amountFields(fs) == SelectSeq(fs, IsAmountName)

IsDateName(f) ==
    \/ includes(toLowerCase(f), kwDate)
    \/ includes(toLowerCase(f), kwTime)
    \/ includes(toLowerCase(f), kwCreated)

dateFields(fs) == SelectSeq(fs, IsDateName)

totalCustomers(d) == Len(d)

\* parseFloat(customer[amountFields[0]]) || 0, and 0 without an amount field
primaryAmount(af, customer) ==
    IF Len(af) > 0 THEN OrZero(parseFloat(Get(customer, af[1]))) ELSE Zero

\* data.reduce((sum, customer) => sum + amount, ...): the accumulator after
\* the records lo..hi, entered with `sum`.  A NaN sum stays NaN.
RECURSIVE RevenueSum(_, _, _, _, _)
RevenueSum(d, af, sum, lo, hi) ==
    IF IsNaN(sum) \/ lo > hi THEN sum
    ELSE IF lo = hi THEN Add(sum, primaryAmount(af, d[lo]))
    ELSE RevenueSum(d, af, RevenueSum(d, af, sum, lo, (lo + hi) \div 2),
                    (lo + hi) \div 2 + 1, hi)

totalRevenue(d, af) == IF Len(af) > 0 THEN RevenueSum(d, af, Zero, 1, Len(d)) ELSE Zero

\* The labels object; evaluating it calls emailField.toLowerCase().
labels(email, af) ==
    LET e  == toLowerCase(email)
        a  == toLowerCase(af[1])
    IN  [customers |->
            IF includes(e, kwCustomer) THEN "Total Customers"
            ELSE IF includes(e, kwUser) THEN "Total Users"
            ELSE IF includes(e, kwContact) THEN "Total Contacts"
            ELSE "Total Records",
         revenue |->
            IF Len(af) > 0
            THEN (IF includes(a, kwRevenue) THEN "Total Revenue"
                  ELSE IF includes(a, kwSales) THEN "Total Sales"
                  ELSE IF includes(a, kwValue) THEN "Total Value"
                  ELSE IF includes(a, kwAmount) THEN "Total Amount"
                  ELSE "Total Value")
            ELSE "Total Value",
         avgOrder |->
            IF Len(af) > 0
            THEN (IF includes(a, kwRevenue) THEN "Avg Revenue"
                  ELSE IF includes(a, kwSales) THEN "Avg Sale Value"
                  ELSE IF includes(a, kwOrder) THEN "Avg Order Value"
                  ELSE "Avg Value")
            ELSE "Avg Value"]

\* Sample first 100 rows
SampleSize == 100

\* Variant: a value qualifies as soon as its start parses as a number.
LooksNumericPrefix(val) == ~IsNaN(parseFloat(val))

\* val => !isNaN(parseFloat(val)) && isFinite(val)
LooksNumeric(val) == ~IsNaN(parseFloat(val)) /\ isFinite(val)

\* Variant: every record is sampled, not only the first SampleSize.
IsNumericFieldAll(d, field) == \E i \in 1..Len(d) : LooksNumeric(Get(d[i], field))

\* data.slice(0, 100).map(row => row[field]).some(LooksNumeric)
IsNumericField(d, field) ==
    \E i \in 1..(IF Len(d) < SampleSize THEN Len(d) ELSE SampleSize) :
        LooksNumeric(Get(d[i], field))

numericFields(d, fs) ==
    LET Test(field) == IsNumericField(d, field)
    IN  SelectSeq(fs, Test)

----------------------------------------------------------------------------
(* Feature Extractor and Normalizer: lines 480-489 and 392-424 *)

\* isNaN(value) ? 0 : value
ZeroIfNaN(value) == IF IsNaN(value) THEN Zero ELSE value

\* const value = parseFloat(customer[field]); return isNaN(value) ? 0 : value
FeatureValue(customer, field) == ZeroIfNaN(parseFloat(Get(customer, field)))

clusteringData(d, nf) ==
    Array([i \in 1..Len(d) |->
            Array([j \in 1..Len(nf) |-> FeatureValue(d[i], nf[j])])])

\* means[j] after the rows lo..hi, entered with `sum`: means[j] += data[i][j].
\* A NaN sum stays NaN.
RECURSIVE ColumnSum(_, _, _, _, _)
ColumnSum(m, j, sum, lo, hi) ==
    IF IsNaN(sum) \/ lo > hi THEN sum
    ELSE IF lo = hi THEN Add(sum, m[lo][j])
    ELSE ColumnSum(m, j, ColumnSum(m, j, sum, lo, (lo + hi) \div 2),
                   (lo + hi) \div 2 + 1, hi)

\* means[j] /= data.length
Mean(m, j) == Div(ColumnSum(m, j, Zero, 1, Len(m)), Num(Len(m)))

\* stds[j] after the rows lo..hi, entered with `sum`:
\* stds[j] += Math.pow(data[i][j] - means[j], 2)
RECURSIVE SquaresSum(_, _, _, _, _, _)
SquaresSum(m, j, mean, sum, lo, hi) ==
    IF IsNaN(sum) \/ lo > hi THEN sum
    ELSE IF lo = hi THEN Add(sum, Square(Sub(m[lo][j], mean)))
    ELSE SquaresSum(m, j, mean, SquaresSum(m, j, mean, sum, lo, (lo + hi) \div 2),
                    (lo + hi) \div 2 + 1, hi)

\* Math.sqrt(stds[j] / data.length)
Deviation(m, j, mean) ==
    MathSqrt(Div(SquaresSum(m, j, mean, Zero, 1, Len(m)), Num(Len(m))))

\* if (stds[j] === 0) stds[j] = 1
Divisor(std) == IF StrictEq(std, Zero) THEN Num(1) ELSE std

ColumnStat(m, j, mean) == [mean |-> mean, std |-> Divisor(Deviation(m, j, mean))]

\* The columns' [mean, std], for the columns j..numFeatures
RECURSIVE ColumnStats(_, _)
ColumnStats(m, j) ==
    IF j > Len(m[1]) THEN <<>>
    ELSE <<ColumnStat(m, j, Mean(m, j))>> \o ColumnStats(m, j + 1)

\* row.map((value, j) => (value - means[j]) / stds[j]) with the rows' stats
Normalized(m, stats) ==
    Array([i \in 1..Len(m) |->
        Array([j \in 1..Len(m[i]) |-> Div(Sub(m[i][j], stats[j].mean), stats[j].std)])])

normalizeData(m) ==
    IF Len(m) = 0 \/ Len(m[1]) = 0 THEN m ELSE Normalized(m, ColumnStats(m, 1))

\* clusteringData.length > 0 ? normalizeData(clusteringData) : []
normalizedData(cd) == IF Len(cd) > 0 THEN normalizeData(cd) ELSE <<>>

----------------------------------------------------------------------------
(* Segmentation Engine, k-means: lines 491-493.  kmeans is the ml-kmeans    *)
(* package; it is modelled as the Lloyd iteration the design describes,    *)
(* started from k of the data points.                                      *)

MaxIterations == 100

\* const k = Math.min(5, data.length)
SegmentCount == 5

\* Variant: five clusters whatever the number of records.
kFixed(d) == SegmentCount

k(d) == IF Len(d) < SegmentCount THEN Len(d) ELSE SegmentCount

\* Squared Euclidean distance between two points, summed over columns j..
RECURSIVE SquaredDistance(_, _, _, _)
SquaredDistance(p, c, sum, j) ==
    IF IsNaN(sum) \/ j > Len(p) THEN sum
    ELSE SquaredDistance(p, c, Add(sum, Square(Sub(p[j], c[j]))), j + 1)

\* The first position of a minimal element of ds.
FirstMinimum(ds) ==
    CHOOSE c \in 1..Len(ds) :
        /\ \A o \in 1..Len(ds) : ~Lt(ds[o], ds[c])
        /\ \A o \in 1..(c - 1) : Lt(ds[c], ds[o])

\* The first centroid (1-based) at minimal distance from p.
Nearest(p, cs) ==
    FirstMinimum(Array([c \in 1..Len(cs) |-> SquaredDistance(p, cs[c], Zero, 1)]))

\* first[i] is the first row of X equal to row i.
FirstEqual(X) ==
    Array([i \in 1..Len(X) |-> CHOOSE j \in 1..i : X[j] = X[i] /\ \A l \in 1..(j - 1) : X[l] # X[i]])

\* Equal points have the same nearest centroid: it is computed for the first
\* of them.
AssignFirst(X, first, cs) ==
    Array([i \in 1..Len(X) |-> IF first[i] = i THEN Nearest(X[i], cs) ELSE 0])

AssignAll(first, nearest) == Array([i \in 1..Len(first) |-> nearest[first[i]]])

AssignClusters(X, first, cs) == AssignAll(first, AssignFirst(X, first, cs))

\* The sum of column j over the rows lo..hi of X assigned to centroid c,
\* entered with `sum`
RECURSIVE MemberSum(_, _, _, _, _, _, _)
MemberSum(X, cl, c, j, sum, lo, hi) ==
    IF IsNaN(sum) \/ lo > hi THEN sum
    ELSE IF lo = hi THEN (IF cl[lo] = c THEN Add(sum, X[lo][j]) ELSE sum)
    ELSE MemberSum(X, cl, c, j, MemberSum(X, cl, c, j, sum, lo, (lo + hi) \div 2),
                   (lo + hi) \div 2 + 1, hi)

CentroidOf(X, cl, c, old, size) ==
    IF size = 0 THEN old
    ELSE Array([j \in 1..Len(old) |->
            Div(MemberSum(X, cl, c, j, Zero, 1, Len(X)), Num(size))])

\* Each centroid becomes the mean of its members; one without members stays.
UpdateCentroids(X, cl, cs) ==
    Array([c \in 1..Len(cs) |->
        CentroidOf(X, cl, c, cs[c], Cardinality({i \in 1..Len(X) : cl[i] = c}))])

RECURSIVE Lloyd(_, _, _, _, _)
LloydNext(X, first, cs, prev, iteration, cl) ==
    IF cl = prev \/ iteration >= MaxIterations THEN cl
    ELSE Lloyd(X, first, UpdateCentroids(X, cl, cs), cl, iteration + 1)

Lloyd(X, first, cs, prev, iteration) ==
    LloydNext(X, first, cs, prev, iteration, AssignClusters(X, first, cs))

\* k of the data points, as the initial centroids
InitialCentroids(X, kk) ==
    {cs \in [1..kk -> Range(X)] :
        \A v \in Range(X) :
            Cardinality({c \in 1..kk : cs[c] = v})
                <= Cardinality({i \in 1..Len(X) : X[i] = v})}

HasNaNEntry(X) == \E i \in 1..Len(X) : \E j \in 1..Len(X[i]) : IsNaN(X[i][j])

ZeroBased(cl) == Array([i \in 1..Len(cl) |-> cl[i] - 1])

\* The possible values of clusterResults.clusters (cluster ids from 0), one
\* per initialization.  The nearest centroid of a NaN point is not defined:
\* any assignment may result.
LloydFrom(X, first, kk) ==
    {ZeroBased(Lloyd(X, first, cs, <<>>, 1)) : cs \in InitialCentroids(X, kk)}

kmeansClusters(X, kk) ==
    IF HasNaNEntry(X) THEN [1..Len(X) -> 0..(kk - 1)] ELSE LloydFrom(X, FirstEqual(X), kk)

\* normalizedData.length > 0 ? kmeans(normalizedData, k, ...) : null: the
\* routine is called whenever the matrix has a row, whatever its columns.
kmeansCalled(nd) == Len(nd) > 0

----------------------------------------------------------------------------
(* Segment Namer: generateSegmentNames, lines 496-546 *)

nmHighValue == <<"H", "i", "g", "h", " ", "V", "a", "l", "u", "e">>

nmPremium == <<"P", "r", "e", "m", "i", "u", "m">>

nmCoreCustomers == <<"C", "o", "r", "e", " ", "C", "u", "s", "t", "o", "m", "e", "r", "s">>

nmRegular == <<"R", "e", "g", "u", "l", "a", "r">>

nmPotentialGrowth == <<"P", "o", "t", "e", "n", "t", "i", "a", "l", " ", "G", "r", "o", "w", "t", "h">>

nmEntryLevel == <<"E", "n", "t", "r", "y", " ", "L", "e", "v", "e", "l">>

nmAtRisk == <<"A", "t", " ", "R", "i", "s", "k">>

nmMajoritySegment == <<"M", "a", "j", "o", "r", "i", "t", "y", " ", "S", "e", "g", "m", "e", "n", "t">>

nmSignificantGroup == <<"S", "i", "g", "n", "i", "f", "i", "c", "a", "n", "t", " ", "G", "r", "o", "u", "p">>

nmNicheSegment == <<"N", "i", "c", "h", "e", " ", "S", "e", "g", "m", "e", "n", "t">>

nmEmergingGroup == <<"E", "m", "e", "r", "g", "i", "n", "g", " ", "G", "r", "o", "u", "p">>

nmOther == <<"O", "t", "h", "e", "r">>

nmSegmentPrefix == <<"S", "e", "g", "m", "e", "n", "t", " ">>

nmChampions == <<"C", "h", "a", "m", "p", "i", "o", "n", "s">>

nmLoyalCustomers == <<"L", "o", "y", "a", "l", " ", "C", "u", "s", "t", "o", "m", "e", "r", "s">>

nmPotentialLoyalists == <<"P", "o", "t", "e", "n", "t", "i", "a", "l", " ", "L", "o", "y", "a", "l", "i", "s", "t", "s">>

nmNeedAttention == <<"N", "e", "e", "d", " ", "A", "t", "t", "e", "n", "t", "i", "o", "n">>

nmLostCustomers == <<"L", "o", "s", "t", " ", "C", "u", "s", "t", "o", "m", "e", "r", "s">>

\* `Segment ${i}`
SegmentLabel(i) == nmSegmentPrefix \o IntToString(i)

\* The cluster ids 0..k-1 that have at least one point, ascending:
\* clusterStats after .filter(Boolean)
RECURSIVE NonEmptyClusters(_, _, _)
NonEmptyClusters(clusters, kk, c) ==
    IF c >= kk THEN <<>>
    ELSE (IF \E i \in 1..Len(clusters) : clusters[i] = c THEN <<c>> ELSE <<>>)
         \o NonEmptyClusters(clusters, kk, c + 1)

\* clusterPoints.reduce((acc, point) => acc + point[fieldIdx], ...) over the
\* points of cluster c among the rows lo..hi, entered with `acc`
RECURSIVE ClusterSum(_, _, _, _, _, _, _)
ClusterSum(cd, clusters, c, fieldIdx, acc, lo, hi) ==
    IF IsNaN(acc) \/ lo > hi THEN acc
    ELSE IF lo = hi THEN (IF clusters[lo] = c THEN Add(acc, cd[lo][fieldIdx]) ELSE acc)
    ELSE ClusterSum(cd, clusters, c, fieldIdx,
                    ClusterSum(cd, clusters, c, fieldIdx, acc, lo, (lo + hi) \div 2),
                    (lo + hi) \div 2 + 1, hi)

ClusterSize(clusters, c) == Cardinality({i \in 1..Len(clusters) : clusters[i] = c})

\* numericFields.findIndex(f => amountFields.includes(f)), 1-based, 0 if none
primaryValueFieldIdx(nf, af) ==
    LET hits == {j \in 1..Len(nf) : \E a \in 1..Len(af) : af[a] = nf[j]}
    IN  IF hits = {} THEN 0 ELSE CHOOSE j \in hits : \A o \in hits : j <= o

\* Variant: the cluster average is compared with the overall average itself,
\* not with 1.5 times it.
StatLabelLoose(idx, relativeSize, avgValue, overallAvg) ==
    IF idx > 0
    THEN IF Gt(avgValue, overallAvg)
         THEN (IF Gt(relativeSize, Decimal(15, 100)) THEN nmHighValue ELSE nmPremium)
         ELSE IF Gt(avgValue, Mul(overallAvg, Decimal(8, 10)))
         THEN (IF Gt(relativeSize, Decimal(25, 100)) THEN nmCoreCustomers ELSE nmRegular)
         ELSE IF Gt(avgValue, Mul(overallAvg, Decimal(3, 10)))
         THEN nmPotentialGrowth
         ELSE (IF Gt(relativeSize, Decimal(2, 10)) THEN nmEntryLevel ELSE nmAtRisk)
    ELSE IF Gt(relativeSize, Decimal(3, 10)) THEN nmMajoritySegment
    ELSE IF Gt(relativeSize, Decimal(2, 10)) THEN nmSignificantGroup
    ELSE IF Gt(relativeSize, Decimal(1, 10)) THEN nmNicheSegment
    ELSE nmEmergingGroup

\* The name of a cluster from its relative size, its average of the primary
\* value field and the overall average of that field (lines 520-545)
StatLabel(idx, relativeSize, avgValue, overallAvg) ==
    IF idx > 0
    THEN IF Gt(avgValue, Mul(overallAvg, Decimal(15, 10)))
         THEN (IF Gt(relativeSize, Decimal(15, 100)) THEN nmHighValue ELSE nmPremium)
         ELSE IF Gt(avgValue, Mul(overallAvg, Decimal(8, 10)))
         THEN (IF Gt(relativeSize, Decimal(25, 100)) THEN nmCoreCustomers ELSE nmRegular)
         ELSE IF Gt(avgValue, Mul(overallAvg, Decimal(3, 10)))
         THEN nmPotentialGrowth
         ELSE (IF Gt(relativeSize, Decimal(2, 10)) THEN nmEntryLevel ELSE nmAtRisk)
    ELSE IF Gt(relativeSize, Decimal(3, 10)) THEN nmMajoritySegment
    ELSE IF Gt(relativeSize, Decimal(2, 10)) THEN nmSignificantGroup
    ELSE IF Gt(relativeSize, Decimal(1, 10)) THEN nmNicheSegment
    ELSE nmEmergingGroup

\* stat.avgValues[primaryValueFieldIdx]: sum / clusterPoints.length
ClusterAverage(cd, idx, clusters, c) ==
    Div(ClusterSum(cd, clusters, c, idx, Zero, 1, Len(cd)), Num(ClusterSize(clusters, c)))

\* clusteringData.reduce((sum, point) => sum + point[idx], 0) / clusteringData.length
OverallAverage(cd, idx) == Div(ColumnSum(cd, idx, Zero, 1, Len(cd)), Num(Len(cd)))

\* The name of the cluster statistic of cluster c
StatName(cd, idx, clusters, c) ==
    StatLabel(idx, Div(Num(ClusterSize(clusters, c)), Num(Len(cd))),
              ClusterAverage(cd, idx, clusters, c), OverallAverage(cd, idx))

\* The array generateSegmentNames returns (clusterResults is never null for a
\* non-empty Table: normalizedData has one row per record).
generateSegmentNames(cd, nf, af, kk, clusters) ==
    IF Len(nf) = 0
    THEN Array([i \in 1..kk |-> SegmentLabel(i)])
    ELSE LET stats == NonEmptyClusters(clusters, kk, 0)
             idx   == primaryValueFieldIdx(nf, af)
         IN  Array([s \in 1..Len(stats) |-> StatName(cd, idx, clusters, stats[s])])

----------------------------------------------------------------------------
(* Aggregator: lines 548-581, 635-647 *)

\* segmentNames[clusterId] || `Segment ${clusterId + 1}`
SegmentOf(segmentNames, clusterId) ==
    IF clusterId >= 0 /\ clusterId < Len(segmentNames)
    THEN segmentNames[clusterId + 1]
    ELSE SegmentLabel(clusterId + 1)

\* numericFields.reduce((acc, field) => acc[field] = parseFloat(..) || 0),
\* kept as the values in numericFields order
Features(nf, customer) ==
    Array([j \in 1..Len(nf) |-> OrZero(parseFloat(Get(customer, nf[j])))])

\* The fields the k-means build sets after the spread of the input record
DerivedFields ==
    {<<"i", "d">>, <<"c", "l", "u", "s", "t", "e", "r">>, <<"s", "e", "g", "m", "e", "n", "t">>,
     <<"m", "o", "n", "e", "t", "a", "r", "y">>, <<"f", "e", "a", "t", "u", "r", "e", "s">>}

IsInputColumn(pair) == pair[1] \notin DerivedFields

\* Variant: the spread keeps every column, also those a derived field names.
SpreadAll(customer) == customer

\* ...customer, every column that a later derived field does not replace
Spread(customer) == SelectSeq(customer, IsInputColumn)

\* The enriched record: `customer` holds the columns the spread copied and
\* the derived fields left in place.
customerSegments(d, nf, af, clusters, segmentNames) ==
    Array([index \in 1..Len(d) |->
        [customer |-> Spread(d[index]),
         id       |-> index,
         cluster  |-> clusters[index],
         segment  |-> SegmentOf(segmentNames, clusters[index]),
         monetary |-> primaryAmount(af, d[index]),
         features |-> Features(nf, d[index])]])

\* acc[name] || 0 in a list of <<name, count>> entries
CountIn(acc, name) ==
    IF \E e \in 1..Len(acc) : acc[e][1] = name
    THEN acc[CHOOSE e \in 1..Len(acc) : acc[e][1] = name][2]
    ELSE 0

\* Variant: the two runs' entries are listed one after the other, a name met
\* in both runs twice.
MergeCountsListed(left, right) == left \o right

\* The counts of a run of records followed by the counts of the next run:
\* a name keeps the place where it was first met.
MergeCounts(left, right) ==
    LET Fresh(entry) == CountIn(left, entry[1]) = 0
    IN  Array([e \in 1..Len(left) |->
                <<left[e][1], left[e][2] + CountIn(right, left[e][1])>>])
            \o SelectSeq(right, Fresh)

\* The reduce into segmentCounts over the records lo..hi, as the
\* <<name, count>> entries in the order the names were first met (the order
\* Object.entries reports); the records are counted by halves.
RECURSIVE segmentCounts(_, _, _)
segmentCounts(cs, lo, hi) ==
    IF lo > hi THEN <<>>
    ELSE IF lo = hi THEN << <<cs[lo].segment, 1>> >>
    ELSE MergeCounts(segmentCounts(cs, lo, (lo + hi) \div 2),
                     segmentCounts(cs, (lo + hi) \div 2 + 1, hi))

\* Math.round((count / data.length) * 100)
Percentage(value, total) == MathRound(Mul(Div(Num(value), Num(total)), Num(100)))

segmentData(cs) ==
    LET counts == segmentCounts(cs, 1, Len(cs))
    IN  Array([e \in 1..Len(counts) |->
            [name       |-> counts[e][1],
             value      |-> counts[e][2],
             percentage |-> Percentage(counts[e][2], Len(cs))]])

\* segmentData.sort((a, b) => b.value - a.value): stable, descending by
\* value, in place, so the snapshot carries the sorted array.
RECURSIVE SortByValue(_)
SortByValue(s) ==
    IF s = <<>> THEN <<>>
    ELSE LET rest == SortByValue(SubSeq(s, 1, Len(s) - 1))
             x    == s[Len(s)]
             pos  == Cardinality({e \in 1..Len(rest) : rest[e].value >= x.value})
         IN  SubSeq(rest, 1, pos) \o <<x>> \o SubSeq(rest, pos + 1, Len(rest))

\* Variant: the name of the last entry of the sorted array.
topSegmentLast(sorted) ==
    IF sorted # <<>> /\ sorted[Len(sorted)].name # <<>>
    THEN sorted[Len(sorted)].name ELSE nmChampions

\* segmentData.sort(...)[0]?.name || 'Champions'
topSegment(sorted) ==
    IF sorted # <<>> /\ sorted[1].name # <<>> THEN sorted[1].name ELSE nmChampions

\* totalRevenue / totalCustomers || 0
avgOrderValue(revenue, customers) == OrZero(Div(revenue, Num(customers)))

----------------------------------------------------------------------------
(* Snapshot Assembler, monthly trend: AnalyticsDashboard.tsx lines 584-625 *)

\* What the result of new Date(...) depends on besides its argument: whether
\* local time is behind UTC, and whether the engine's fallback parser accepts
\* text outside the date-time string format (implementation-defined).
Environments == [west : BOOLEAN, legacy : BOOLEAN]

InvalidDate == [valid |-> FALSE, year |-> 0, month |-> 0]

\* A valid Date by its local getFullYear() and getMonth() + 1
LocalDate(year, month) == [valid |-> TRUE, year |-> year, month |-> month]

IsLeapYear(y) == y % 4 = 0 /\ (y % 100 # 0 \/ y % 400 = 0)

DaysInMonth(y, m) ==
    IF m = 2 THEN (IF IsLeapYear(y) THEN 29 ELSE 28)
    ELSE IF m \in {4, 6, 9, 11} THEN 30 ELSE 31

\* s is a date-only form YYYY-MM-DD of the date-time string format
IsIsoDate(s) ==
    /\ Len(s) = 10
    /\ s[5] = "-" /\ s[8] = "-"
    /\ \A i \in {1, 2, 3, 4, 6, 7, 9, 10} : IsDigit(s[i])
    /\ DigitsVal(s, 6, 8) \in 1..12
    /\ DigitsVal(s, 9, 11) \in 1..DaysInMonth(DigitsVal(s, 1, 5), DigitsVal(s, 6, 8))

\* A date-only form is midnight UTC of its day: behind UTC the local day is
\* the day before, which is in the month before when the day is the 1st.
IsoLocalDate(y, m, day, west) ==
    IF west /\ day = 1
    THEN (IF m = 1 THEN LocalDate(y - 1, 12) ELSE LocalDate(y, m - 1))
    ELSE LocalDate(y, m)

\* s is a month number alone, which a lenient fallback parser reads as the
\* first day of that month of 2001, local time
IsMonthNumber(s) ==
    /\ Len(s) \in 1..2
    /\ \A i \in 1..Len(s) : IsDigit(s[i])
    /\ DigitsVal(s, 1, Len(s) + 1) \in 1..12

\* new Date(s) for the texts of the model's Tables: date-only forms, month
\* numbers and texts no engine reads as a date
DateOf(s, env) ==
    IF IsIsoDate(s)
    THEN IsoLocalDate(DigitsVal(s, 1, 5), DigitsVal(s, 6, 8), DigitsVal(s, 9, 11), env.west)
    ELSE IF env.legacy /\ IsMonthNumber(s)
    THEN LocalDate(2001, DigitsVal(s, 1, Len(s) + 1))
    ELSE InvalidDate

\* String(n).padStart(2, '0')
PadStart2(n) == IF n < 10 THEN <<"0">> \o NatToString(n) ELSE NatToString(n)

\* `${date.getFullYear()}-${String(date.getMonth() + 1).padStart(2, '0')}`
monthKey(date) == IntToString(date.year) \o <<"-">> \o PadStart2(date.month)

\* acc[monthKey].count++ and acc[monthKey].revenue += amount, on a fresh
\* { count: 0, revenue: 0 } for a new key; the groups keep insertion order
AddToGroup(acc, key, amount) ==
    IF \E e \in 1..Len(acc) : acc[e].key = key
    THEN Array([e \in 1..Len(acc) |->
            IF acc[e].key = key
            THEN [key     |-> key,
                  count   |-> acc[e].count + 1,
                  revenue |-> Add(acc[e].revenue, amount)]
            ELSE acc[e]])
    ELSE Append(acc, [key |-> key, count |-> 1, revenue |-> Add(Zero, amount)])

Grouped(acc, date, amount) ==
    IF date.valid THEN AddToGroup(acc, monthKey(date), amount) ELSE acc

\* data.reduce((acc, row) => ..., {}): the groups after the records i..
RECURSIVE monthGroups(_, _, _, _, _, _)
monthGroups(d, df, af, env, acc, i) ==
    IF i > Len(d) THEN acc
    ELSE monthGroups(d, df, af, env,
                     Grouped(acc, DateOf(Get(d[i], df[1]), env), primaryAmount(af, d[i])),
                     i + 1)

\* The order of "-" and the digits under localeCompare
CharRank(c) == IF c = "-" THEN 0 ELSE DigitVal(c) + 1

\* a.localeCompare(b) < 0 for two month keys
RECURSIVE KeyBefore(_, _)
KeyBefore(a, b) ==
    IF b = <<>> THEN FALSE
    ELSE IF a = <<>> THEN TRUE
    ELSE IF Head(a) # Head(b) THEN CharRank(Head(a)) < CharRank(Head(b))
    ELSE KeyBefore(Tail(a), Tail(b))

\* Object.entries(monthGroups).sort(([a], [b]) => a.localeCompare(b))
RECURSIVE SortByKey(_)
SortByKey(s) ==
    IF s = <<>> THEN <<>>
    ELSE LET rest == SortByKey(SubSeq(s, 1, Len(s) - 1))
             x    == s[Len(s)]
             pos  == Cardinality({e \in 1..Len(rest) : ~KeyBefore(x.key, rest[e].key)})
         IN  SubSeq(rest, 1, pos) \o <<x>> \o SubSeq(rest, pos + 1, Len(rest))

MonthCount == 12

\* .slice(-12)
LastMonths(s) == SubSeq(s, IF Len(s) > MonthCount THEN Len(s) - MonthCount + 1 ELSE 1, Len(s))

ShortMonths ==
    <<<<"J", "a", "n">>, <<"F", "e", "b">>, <<"M", "a", "r">>, <<"A", "p", "r">>,
      <<"M", "a", "y">>, <<"J", "u", "n">>, <<"J", "u", "l">>, <<"A", "u", "g">>,
      <<"S", "e", "p">>, <<"O", "c", "t">>, <<"N", "o", "v">>, <<"D", "e", "c">>>>

\* new Date(parseInt(year), parseInt(month) - 1).toLocaleDateString('en',
\* { month: 'short', year: '2-digit' }) of the two parts of a month key
MonthLabel(key, dash) ==
    ShortMonths[DigitsVal(key, dash + 1, Len(key) + 1)]
        \o <<" ">> \o PadStart2(DigitsVal(key, 1, dash) % 100)

TrendPoint(group) ==
    [month     |-> MonthLabel(group.key, DigitsEnd(group.key, 1)),
     customers |-> group.count,
     revenue   |-> MathRound(group.revenue)]

TrendPoints(groups) == Array([e \in 1..Len(groups) |-> TrendPoint(groups[e])])

\* The value of the try block of lines 586-612
monthlyTrend(d, df, af, env) ==
    TrendPoints(LastMonths(SortByKey(monthGroups(d, df, af, env, <<>>, 1))))

\* The largest double below 1
AlmostOne == Sub(Num(1), Mul(Decimal(1, 134217728), Decimal(1, 67108864)))

\* The values the twelve calls of Math.random() of line 623 are taken to
\* return: the least, the middle and the largest, in turn
JitterDraws ==
    {Array([i \in 1..MonthCount |-> <<Zero, Decimal(1, 2), AlmostOne>>[((i + shift) % 3) + 1]]) :
        shift \in 0..1}

\* Variant: a jitter factor of up to 1.3.
jitterWide(draw) == Add(Decimal(8, 10), Mul(draw, Decimal(5, 10)))

\* 0.8 + Math.random() * 0.4
jitter(draw) == Add(Decimal(8, 10), Mul(draw, Decimal(4, 10)))

\* Math.ceil(data.length / 12)
itemsPerMonth(d) == (Len(d) + MonthCount - 1) \div MonthCount

Min(a, b) == IF a < b THEN a ELSE b

\* The draws of a run of the fallback with their jitter factors
JitterRuns ==
    {[draws  |-> draws,
      jitter |-> Array([i \in 1..MonthCount |-> jitter(draws[i])])] : draws \in JitterDraws}

\* Math.round((totalRevenue / 12) * (0.8 + Math.random() * 0.4))
syntheticRevenue(share, factor) == MathRound(Mul(share, factor))

syntheticPoint(d, share, factor, i) ==
    [month     |-> ShortMonths[i + 1],
     customers |-> Min(itemsPerMonth(d), Len(d) - i * itemsPerMonth(d)),
     revenue   |-> syntheticRevenue(share, factor)]

syntheticShared(d, share, factors) ==
    Array([e \in 1..MonthCount |-> syntheticPoint(d, share, factors[e], e - 1)])

\* The fallback of lines 619-624
syntheticTrend(d, revenue, factors) ==
    syntheticShared(d, Div(revenue, Num(MonthCount)), factors)

\* What a run of lines 584-625 reads from outside the callback
TrendRuns(df) ==
    IF Len(df) > 0 THEN {[env |-> env] : env \in Environments} ELSE JitterRuns

monthlyData(d, df, af, revenue, run) ==
    IF Len(df) > 0
    THEN monthlyTrend(d, df, af, run.env)
    ELSE syntheticTrend(d, revenue, run.jitter)

----------------------------------------------------------------------------
(* The cluster scatter: AnalyticsDashboard.tsx lines 627-633 *)

\* The results of Math.random() of a run of the scatter, read in turn and
\* again from the first after the last
ScatterCycles ==
    {<<Zero, Decimal(1, 2), AlmostOne>>, <<AlmostOne, Zero, Decimal(1, 2)>>}

\* Math.random() * 100
placeholder(draw) == Mul(draw, Num(100))

\* The n-th value of a cycle, n from 0
DrawAt(cycle, n) == cycle[(n % Len(cycle)) + 1]

\* Every run of the scatter with its placeholders
AllScatterRuns ==
    {[scatter      |-> cycle,
      placeholders |-> Array([n \in DOMAIN cycle |-> placeholder(cycle[n])])] :
        cycle \in ScatterCycles \cup JitterDraws}

\* The runs of the scatter after a monthly trend: Math.random() goes on where
\* the fallback trend left it (after MonthCount results the cycle is at its
\* start again), and is at any place when the trend drew nothing; a scatter
\* that draws nothing has one run.
ScatterRuns(nf, trendMemo) ==
    {run \in AllScatterRuns :
        run.scatter \in IF "draws" \in DOMAIN trendMemo THEN {trendMemo.draws}
                        ELSE IF Len(nf) > 1 THEN {<<Zero, Decimal(1, 2), AlmostOne>>}
                        ELSE ScatterCycles}

\* Variant: the first numeric field gives x only when there is a second one.
pointXPaired(nf, customer, random) ==
    IF Len(nf) > 1 THEN customer.features[1] ELSE random

\* numericFields.length > 0 ? customer.features[numericFields[0]] || 0 : Math.random() * 100
pointX(nf, customer, random) ==
    IF Len(nf) > 0 THEN customer.features[1] ELSE random

\* numericFields.length > 1 ? customer.features[numericFields[1]] || 0 : Math.random() * 100
pointY(nf, customer, random) ==
    IF Len(nf) > 1 THEN customer.features[2] ELSE random

\* customerSegments.map(customer => ({x, y, cluster, segment})): record i
\* reads the run's results 2i - 2 (for x) and 2i - 1 (for y).
clusterVisualizationData(cs, nf, placeholders) ==
    Array([i \in 1..Len(cs) |->
        [x       |-> pointX(nf, cs[i], DrawAt(placeholders, 2 * i - 2)),
         y       |-> pointY(nf, cs[i], DrawAt(placeholders, 2 * i - 1)),
         cluster |-> cs[i].cluster,
         segment |-> cs[i].segment]])

----------------------------------------------------------------------------
(* Segmentation Engine, rule-based RFM: Landing.tsx lines 85-130 *)

\* The values Math.random() is taken to return, as fractions in [0, 1).
RandomDraws == {Zero, Decimal(1, 2)}

AtLeastAmount(a, b) == ~Lt(a, b)

\* recency < 30 ? 5 : recency < 90 ? 4 : recency < 180 ? 3 : recency < 365 ? 2 : 1
rScore(recency) ==
    IF recency < 30 THEN 5 ELSE IF recency < 90 THEN 4
    ELSE IF recency < 180 THEN 3 ELSE IF recency < 365 THEN 2 ELSE 1

fScore(frequency) ==
    IF frequency > 15 THEN 5 ELSE IF frequency > 10 THEN 4
    ELSE IF frequency > 5 THEN 3 ELSE IF frequency > 2 THEN 2 ELSE 1

\* Variant: the monetary thresholds taken inclusively.
mScoreInclusive(amount) ==
    IF AtLeastAmount(amount, Num(1000)) THEN 5 ELSE IF AtLeastAmount(amount, Num(500)) THEN 4
    ELSE IF AtLeastAmount(amount, Num(200)) THEN 3 ELSE IF AtLeastAmount(amount, Num(50)) THEN 2 ELSE 1

mScore(amount) ==
    IF Gt(amount, Num(1000)) THEN 5 ELSE IF Gt(amount, Num(500)) THEN 4
    ELSE IF Gt(amount, Num(200)) THEN 3 ELSE IF Gt(amount, Num(50)) THEN 2 ELSE 1

\* avgScore >= x
AtLeast(a, b) == ~IsNaN(a) /\ ~IsNaN(b) /\ ~Lt(a, b)

\* The segment of an average score
rfmSegmentOf(avgScore) ==
    IF AtLeast(avgScore, Decimal(45, 10)) THEN nmChampions
    ELSE IF AtLeast(avgScore, Num(4)) THEN nmLoyalCustomers
    ELSE IF AtLeast(avgScore, Decimal(35, 10)) THEN nmPotentialLoyalists
    ELSE IF AtLeast(avgScore, Num(3)) THEN nmAtRisk
    ELSE IF AtLeast(avgScore, Num(2)) THEN nmNeedAttention
    ELSE nmLostCustomers

\* const avgScore = (rScore + fScore + mScore) / 3
rfmSegment(r, f, m) == rfmSegmentOf(Div(Num(r + f + m), Num(3)))

\* The enriched record of a customer with its amount, recency and frequency
rfmScored(customer, index, amount, recency, frequency) ==
    [customer  |-> customer,
     id        |-> index,
     recency   |-> recency,
     frequency |-> frequency,
     monetary  |-> amount,
     rScore    |-> rScore(recency),
     fScore    |-> fScore(frequency),
     mScore    |-> mScore(amount),
     segment   |-> rfmSegment(rScore(recency), fScore(frequency), mScore(amount))]

\* One enriched record, given the record's three Math.random() results
\* (the first is used only when the Table has no amount field).
rfmCustomer(d, af, index, draw) ==
    rfmScored(d[index], index,
              IF Len(af) > 0
              THEN OrZero(parseFloat(Get(d[index], af[1])))
              ELSE Mul(draw[1], Num(1000)),
              IntegerOf(MathFloor(Mul(draw[2], Num(365)))),
              IntegerOf(MathFloor(Mul(draw[3], Num(20)))) + 1)

\* The draws of one record: the amount draw is fixed when it is not used.
RecordDraws(af) ==
    {draw \in [1..3 -> RandomDraws] : Len(af) > 0 => draw[1] = Zero}

----------------------------------------------------------------------------
(* The useMemo callback: data -> insights.  Analyze gives every outcome as  *)
(* [insights, memo]: insights is the callback's result (or the exception    *)
(* that left it), memo the callback's local constants.                      *)

NoInsights == [kind |-> "null"]

NoMemo == [kind |-> "none"]

Threw(error) == [kind |-> "threw", error |-> error]

\* The local constants of the callback up to the kmeans call, computed in the
\* callback's order
LocalsClustered(d, fs, af, nf, cd, nd) ==
    [kind           |-> "kmeans",
     emailField     |-> emailField(fs),
     amountFields   |-> af,
     dateFields     |-> dateFields(fs),
     numericFields  |-> nf,
     clusteringData |-> cd,
     normalizedData |-> nd,
     k              |-> k(d),
     kmeansCalled   |-> kmeansCalled(nd)]

LocalsNormalized(d, fs, af, nf, cd) == LocalsClustered(d, fs, af, nf, cd, normalizedData(cd))

LocalsNumeric(d, fs, af, nf) == LocalsNormalized(d, fs, af, nf, clusteringData(d, nf))

LocalsOf(d, fs) == LocalsNumeric(d, fs, amountFields(fs), numericFields(d, fs))

KMeansLocals(d) == LocalsOf(d, fields(d))

\* The callback's result and local constants, once its arrays are computed
SnapshotOf(d, loc, clusters, names, cs, sorted, revenue) ==
    [insights |->
        [kind             |-> "snapshot",
         totalCustomers   |-> totalCustomers(d),
         totalRevenue     |-> revenue,
         avgOrderValue    |-> avgOrderValue(revenue, totalCustomers(d)),
         customerSegments |-> cs,
         segmentData      |-> sorted,
         numericFields    |-> loc.numericFields,
         fields           |-> fields(d),
         labels           |-> labels(loc.emailField.name, loc.amountFields),
         topSegment       |-> topSegment(sorted)],
     memo |-> [c \in DOMAIN loc \cup {"clusters", "segmentNames"} |->
                 IF c = "clusters" THEN clusters
                 ELSE IF c = "segmentNames" THEN names
                 ELSE loc[c]]]

SnapshotSegmented(d, loc, clusters, names, cs) ==
    SnapshotOf(d, loc, clusters, names, cs, SortByValue(segmentData(cs)),
               totalRevenue(d, loc.amountFields))

SnapshotNamed(d, loc, clusters, names) ==
    SnapshotSegmented(d, loc, clusters, names,
                      customerSegments(d, loc.numericFields, loc.amountFields, clusters, names))

KMeansSnapshot(d, loc, clusters) ==
    SnapshotNamed(d, loc, clusters,
                  generateSegmentNames(loc.clusteringData, loc.numericFields,
                                       loc.amountFields, loc.k, clusters))

\* The snapshot with the monthly trend of a run and what the run read
WithTrend(snap, run, trend) ==
    [insights |-> [c \in DOMAIN snap.insights \cup {"monthlyData"} |->
                     IF c = "monthlyData" THEN trend ELSE snap.insights[c]],
     memo     |-> [c \in DOMAIN snap.memo \cup DOMAIN run |->
                     IF c \in DOMAIN run THEN run[c] ELSE snap.memo[c]]]

SnapshotTrends(d, snap) ==
    {WithTrend(snap, run,
               monthlyData(d, snap.memo.dateFields, snap.memo.amountFields,
                           snap.insights.totalRevenue, run)) :
        run \in TrendRuns(snap.memo.dateFields)}

\* The snapshot with the scatter of a run and the run's draws
WithScatter(snap, run, points) ==
    [insights |-> [c \in DOMAIN snap.insights \cup {"clusterVisualizationData"} |->
                     IF c = "clusterVisualizationData" THEN points ELSE snap.insights[c]],
     memo     |-> [c \in DOMAIN snap.memo \cup {"scatter"} |->
                     IF c = "scatter" THEN run.scatter ELSE snap.memo[c]]]

SnapshotScatters(snap) ==
    {WithScatter(snap, run,
                 clusterVisualizationData(snap.insights.customerSegments,
                                          snap.memo.numericFields, run.placeholders)) :
        run \in ScatterRuns(snap.memo.numericFields, snap.memo)}

\* The callback's outcomes from the local constants on: one per result of
\* kmeans, run of the monthly trend and run of the scatter.  Without a column, evaluating the labels calls
\* emailField.toLowerCase() on undefined (line 459).
KMeansOutcomes(d, loc) ==
    IF ~loc.emailField.defined
    THEN {[insights |-> Threw("TypeError"),
           memo     |-> [kind         |-> "kmeans",
                         emailField   |-> loc.emailField,
                         amountFields |-> loc.amountFields,
                         dateFields   |-> loc.dateFields]]}
    ELSE UNION {SnapshotScatters(trended) :
                    trended \in UNION {SnapshotTrends(d, snap) :
                                snap \in {KMeansSnapshot(d, loc, clusters) :
                                    clusters \in kmeansClusters(loc.normalizedData, loc.k)}}}

\* AnalyticsDashboard.tsx lines 427-648
AnalyzeKMeans(d) ==
    IF d.isNull \/ Len(d.rows) = 0
    THEN {[insights |-> NoInsights, memo |-> NoMemo]}
    ELSE KMeansOutcomes(d.rows, KMeansLocals(d.rows))

RfmSnapshotOf(d, af, cs, sorted, revenue) ==
    [insights |->
        [kind             |-> "snapshot",
         totalCustomers   |-> totalCustomers(d),
         totalRevenue     |-> revenue,
         avgOrderValue    |-> avgOrderValue(revenue, totalCustomers(d)),
         customerSegments |-> cs,
         segmentData      |-> sorted,
         fields           |-> fields(d),
         topSegment       |-> topSegment(sorted)],
     memo |->
        [kind         |-> "rfm",
         emailField   |-> emailField(fields(d)),
         amountFields |-> af,
         dateFields   |-> dateFields(fields(d))]]

RfmSegmented(d, af, cs) ==
    RfmSnapshotOf(d, af, cs, SortByValue(segmentData(cs)), totalRevenue(d, af))

RfmSnapshot(d, af, draws) ==
    RfmSegmented(d, af, Array([index \in 1..Len(d) |-> rfmCustomer(d, af, index, draws[index])]))

RfmOutcomes(d, af) == {RfmSnapshot(d, af, draws) : draws \in [1..Len(d) -> RecordDraws(af)]}

\* Landing.tsx lines 55-149
AnalyzeRfm(d) ==
    IF d.isNull \/ Len(d.rows) = 0
    THEN {[insights |-> NoInsights, memo |-> NoMemo]}
    ELSE RfmOutcomes(d.rows, amountFields(fields(d.rows)))

Analyze(s, d) == IF s = "kmeans" THEN AnalyzeKMeans(d) ELSE AnalyzeRfm(d)

----------------------------------------------------------------------------
(* The Tables the model uploads *)

MaxCols == 2

MaxRows == 3

MaxRfmRows == 2

\* The records of the Table that shows a share of ShareCount in ShareRows
ShareRows == 40

ShareCount == 23

\* The records of the Tables with one record unlike the others
SkewRows == 7

colEmail == <<"E", "m", "a", "i", "l">>

colUserEmail == <<"u", "s", "e", "r", "_", "e", "m", "a", "i", "l">>

colName == <<"n", "a", "m", "e">>

colTotalSpent == <<"t", "o", "t", "a", "l", "_", "s", "p", "e", "n", "t">>

colAmount == <<"A", "m", "o", "u", "n", "t">>

colCreatedAt == <<"c", "r", "e", "a", "t", "e", "d", "_", "a", "t">>

colValueDate == <<"v", "a", "l", "u", "e", "_", "d", "a", "t", "e">>

colAge == <<"a", "g", "e">>

colCustomerId == <<"c", "u", "s", "t", "o", "m", "e", "r", "_", "i", "d">>

ColumnNames == {colEmail, colUserEmail, colName, colTotalSpent, colAmount,
                colCreatedAt, colValueDate, colAge, colCustomerId}

rawEmpty == <<>>

rawText == <<"a", "b", "c">>

rawSeven == <<"7">>

rawMinusThree == <<"-", "3">>

rawPrefixed == <<"1", "2", "a", "b", "c">>

rawInfinity == <<"I", "n", "f", "i", "n", "i", "t", "y">>

rawPadded == <<" ", "4", " ">>

rawMinusInfinity == <<"-", "I", "n", "f", "i", "n", "i", "t", "y">>

rawTenth == <<"0", ".", "1">>

\* Every schema of at most MaxCols distinct column names
Schemas ==
    UNION {{s \in [1..n -> ColumnNames] : \A i, j \in 1..n : s[i] = s[j] => i = j} :
            n \in 0..MaxCols}

MkRow(schema, values) == Array([j \in 1..Len(schema) |-> <<schema[j], values[j]>>])

\* The Tables of n records over `schema` with every cell drawn from `values`
TablesOver(schema, values, n) ==
    {Array([i \in 1..n |-> MkRow(schema, cells[i])]) :
        cells \in [1..n -> [1..Len(schema) -> values]]}

\* One record, any schema: the Tables that exercise the name heuristics
NameTables == UNION {TablesOver(s, {rawSeven, rawText}, 1) : s \in Schemas}

\* One amount column, any values: the Tables that exercise the sums
ValueTables(maxRows) ==
    UNION {TablesOver(<<colTotalSpent>>,
                      {rawText, rawSeven, rawMinusThree, rawPrefixed}, n) :
            n \in 1..maxRows}

\* Values that parse but are not plain finite numbers
SpecialTables ==
    UNION {TablesOver(<<colAmount>>,
                      {rawSeven, rawEmpty, rawInfinity, rawMinusInfinity, rawPadded, rawTenth}, n) :
            n \in 1..MaxRfmRows}

\* Two columns, one an amount
TwoColumnTables ==
    UNION {TablesOver(<<colAge, colAmount>>, {rawSeven, rawText}, n) : n \in 1..MaxRfmRows}

colSegment == <<"s", "e", "g", "m", "e", "n", "t">>

colId == <<"i", "d">>

\* Records with columns named as derived fields
DerivedNameTables ==
    TablesOver(<<colSegment, colAmount>>, {rawText, rawSeven}, 1)
        \cup TablesOver(<<colName, colId>>, {rawSeven}, MaxRfmRows)

\* A column of one repeated decimal fraction
RepeatedTables == TablesOver(<<colAmount>>, {rawTenth}, MaxRows)

\* Tables one record longer than the numeric-field sample: every cell is
\* text but one number, in the last sampled record or in the one after it.
TallTables ==
    {Array([i \in 1..(SampleSize + 1) |->
        MkRow(<<colAge>>, <<IF i = at THEN rawSeven ELSE rawText>>)]) :
        at \in {SampleSize, SampleSize + 1}}

\* SkewRows records, all alike but the last: one small cluster beside a
\* large one
SkewTables ==
    {Array([i \in 1..SkewRows |->
        MkRow(<<colTotalSpent>>, <<IF i < SkewRows THEN most ELSE last>>)]) :
        most \in {rawSeven}, last \in {rawText, rawSeven, rawMinusThree, rawPrefixed}}

rawMidJanuary == <<"2", "0", "2", "4", "-", "0", "1", "-", "1", "5">>

rawFirstOfMarch == <<"2", "0", "2", "4", "-", "0", "3", "-", "0", "1">>

rawYear999 == <<"0", "9", "9", "9", "-", "0", "5", "-", "1", "5">>

rawYear1000 == <<"1", "0", "0", "0", "-", "0", "1", "-", "1", "5">>

\* The records of the dated Tables
MaxDatedRows == 2

\* A date column and an amount column: dates of two months, of years of
\* three and four digits, and text that is no date
DatedTables ==
    UNION {{Array([i \in 1..n |-> MkRow(<<colCreatedAt, colAmount>>, <<dates[i], amounts[i]>>)]) :
                dates \in [1..n -> {rawMidJanuary, rawFirstOfMarch, rawYear999, rawYear1000, rawText}],
                amounts \in [1..n -> {rawSeven, rawText}]} :
            n \in 1..MaxDatedRows}

\* The months of the Table with one record a month
YearRows == 13

\* The 15th of the month `i` months after December 2022
MidMonth(i) ==
    NatToString(2023 + (i - 1) \div 12) \o <<"-">> \o PadStart2(((i - 1) % 12) + 1)
        \o <<"-", "1", "5">>

\* One record a month for YearRows months, latest first, each with an amount
YearTables ==
    {Array([i \in 1..YearRows |->
        MkRow(<<colCreatedAt, colAmount>>, <<MidMonth(YearRows + 1 - i), rawSeven>>)])}

\* ShareRows records, ShareCount of them with an amount
ShareTables ==
    {Array([i \in 1..ShareRows |->
        MkRow(<<colTotalSpent>>, <<IF i <= ShareCount THEN rawSeven ELSE rawText>>)])}

Tables(s) ==
    IF s = "kmeans"
    THEN NameTables \cup ValueTables(MaxRows) \cup SpecialTables \cup TwoColumnTables
            \cup RepeatedTables \cup TallTables \cup ShareTables \cup SkewTables
            \cup DatedTables \cup YearTables \cup DerivedNameTables
    ELSE NameTables \cup ValueTables(MaxRfmRows) \cup SpecialTables \cup TwoColumnTables

----------------------------------------------------------------------------
(* Ingestion: FileUpload, part_000 *)

\* The places of the character sep in s
SeparatorsOf(s, sep) == {i \in 1..Len(s) : s[i] = sep}

\* The place of the n-th sep of s; 0 for n = 0, past the end when s has
\* fewer
NthSeparator(s, sep, n) ==
    IF n = 0 THEN 0
    ELSE IF n > Cardinality(SeparatorsOf(s, sep)) THEN Len(s) + 1
    ELSE CHOOSE i \in SeparatorsOf(s, sep) :
            Cardinality({j \in SeparatorsOf(s, sep) : j < i}) = n - 1

\* s.split(sep) for a separator of one character
split(s, sep) ==
    Array([n \in 1..(Cardinality(SeparatorsOf(s, sep)) + 1) |->
        SubSeq(s, NthSeparator(s, sep, n - 1) + 1, NthSeparator(s, sep, n) - 1)])

trim(s) == TrimEnd(TrimStart(s))

IsNoQuote(c) == c # "\""

\* v.trim().replace(/"/g, '')
cell(s) == SelectSeq(trim(s), IsNoQuote)

IsNonBlank(line) == trim(line) # <<>>

\* text.split('\n').filter(line => line.trim())
lines(text) == SelectSeq(split(text, "\n"), IsNonBlank)

cells(line) == Array([j \in 1..Len(split(line, ",")) |-> cell(split(line, ",")[j])])

protoKey == <<"_", "_", "p", "r", "o", "t", "o", "_", "_">>

\* key is an array index in canonical form: such keys come first in
\* Object.keys, in ascending order (keys of 10 digits and more are left to
\* the insertion order; no file of the model has one).
IsIndexKey(key) ==
    /\ Len(key) \in 1..9
    /\ \A i \in 1..Len(key) : IsDigit(key[i])
    /\ Len(key) = 1 \/ key[1] # "0"

IndexBefore(a, b) == DigitsVal(a, 1, Len(a) + 1) < DigitsVal(b, 1, Len(b) + 1)

\* The place of a new key among the keys of row
PlaceOf(row, key) ==
    IF IsIndexKey(key)
    THEN Cardinality({i \in 1..Len(row) : IsIndexKey(row[i][1]) /\ IndexBefore(row[i][1], key)})
    ELSE Len(row)

\* row[key] = value on a plain object with string values: __proto__ is the
\* accessor of Object.prototype, which ignores a string; a key already there
\* keeps its place; a new key goes after the keys before it.
SetKey(row, key, value) ==
    IF key = protoKey THEN row
    ELSE IF HasKey(row, key)
    THEN Array([i \in 1..Len(row) |-> IF row[i][1] = key THEN <<key, value>> ELSE row[i]])
    ELSE SubSeq(row, 1, PlaceOf(row, key)) \o <<<<key, value>>>>
            \o SubSeq(row, PlaceOf(row, key) + 1, Len(row))

\* values[index] || ''
ValueAt(values, index) == IF index <= Len(values) THEN values[index] ELSE <<>>

\* headers.forEach((header, index) => row[header] = values[index] || '')
RECURSIVE rowOf(_, _, _, _)
rowOf(headers, values, row, index) ==
    IF index > Len(headers) THEN row
    ELSE rowOf(headers, values, SetKey(row, headers[index], ValueAt(values, index)), index + 1)

\* parseCSV: the Table, or the Error thrown
parseCSV(text) ==
    IF Len(lines(text)) < 2
    THEN [ok |-> FALSE, rows |-> <<>>]
    ELSE [ok   |-> TRUE,
          rows |-> Array([i \in 1..(Len(lines(text)) - 1) |->
                        rowOf(cells(lines(text)[1]), cells(lines(text)[i + 1]), <<>>, 1)])]

NoFile == [isNull |-> TRUE, name |-> <<>>, type |-> <<>>]

\* Variant: the panel keeps showing no File.
FileShownNone(file) == NoFile

\* The File held by setUploadedFile(file): the panel shows its name
FileShown(file) == [isNull |-> FALSE, name |-> file.name, type |-> file.type]

endsWith(s, suffix) ==
    Len(s) >= Len(suffix) /\ SubSeq(s, Len(s) - Len(suffix) + 1, Len(s)) = suffix

\* Variant: every File is taken for a CSV.
IsCsvFileAny(file) == TRUE

\* file.type.includes('csv') || file.name.endsWith('.csv')
IsCsvFile(file) ==
    includes(file.type, <<"c", "s", "v">>) \/ endsWith(file.name, <<".", "c", "s", "v">>)

InvalidFileType == [title |-> "Invalid file type", variant |-> "destructive"]

ErrorParsingCsv == [title |-> "Error parsing CSV", variant |-> "destructive"]

FileUploaded == [title |-> "File uploaded successfully!", variant |-> "default"]

SampleLoaded == [title |-> "Sample data loaded!", variant |-> "default"]

\* The records loadSampleData generates (250 in the source)
SampleRows == 2

\* Math.floor(Math.random() * n)
randomBelow(draw, n) == IntegerOf(MathFloor(Mul(draw, Num(n))))

\* String(n).padStart(4, '0')
PadStart4(n) ==
    IF n < 10 THEN <<"0", "0", "0">> \o NatToString(n)
    ELSE IF n < 100 THEN <<"0", "0">> \o NatToString(n)
    ELSE IF n < 1000 THEN <<"0">> \o NatToString(n)
    ELSE NatToString(n)

DateText(y, m, day) == NatToString(y) \o <<"-">> \o PadStart2(m) \o <<"-">> \o PadStart2(day)

\* new Date(y, m - 1, day).toISOString().split('T')[0]: the UTC day of the
\* local midnight, which is the day before where local time is ahead of UTC
isoDay(y, m, day, ahead) ==
    IF ~ahead THEN DateText(y, m, day)
    ELSE IF day > 1 THEN DateText(y, m, day - 1)
    ELSE IF m > 1 THEN DateText(y, m - 1, DaysInMonth(y, m - 1))
    ELSE DateText(y - 1, 12, 31)

Cities ==
    <<<<"N", "e", "w", " ", "Y", "o", "r", "k">>,
      <<"L", "o", "s", " ", "A", "n", "g", "e", "l", "e", "s">>,
      <<"C", "h", "i", "c", "a", "g", "o">>,
      <<"H", "o", "u", "s", "t", "o", "n">>,
      <<"P", "h", "o", "e", "n", "i", "x">>,
      <<"P", "h", "i", "l", "a", "d", "e", "l", "p", "h", "i", "a">>,
      <<"S", "a", "n", " ", "A", "n", "t", "o", "n", "i", "o">>,
      <<"S", "a", "n", " ", "D", "i", "e", "g", "o">>>>

SampleSegments ==
    <<<<"P", "r", "e", "m", "i", "u", "m">>, <<"R", "e", "g", "u", "l", "a", "r">>,
      <<"B", "u", "d", "g", "e", "t">>>>

\* One generated record, i from 0; its nine results of Math.random() are
\* read from the cycle in the order of the object literal.  Numbers are
\* written as the text String() gives them.
sampleRecord(i, cycle, ahead) ==
    <<<<colCustomerId, <<"C", "U", "S", "T">> \o PadStart4(i + 1)>>,
      <<colName, <<"C", "u", "s", "t", "o", "m", "e", "r", " ">> \o NatToString(i + 1)>>,
      <<<<"e", "m", "a", "i", "l">>,
        <<"c", "u", "s", "t", "o", "m", "e", "r">> \o NatToString(i + 1)
            \o <<"@", "e", "x", "a", "m", "p", "l", "e", ".", "c", "o", "m">>>>,
      <<colAge, NatToString(randomBelow(DrawAt(cycle, 9 * i), 50) + 20)>>,
      <<<<"r", "e", "g", "i", "s", "t", "r", "a", "t", "i", "o", "n", "_", "d", "a", "t", "e">>,
        isoDay(2023, randomBelow(DrawAt(cycle, 9 * i + 1), 12) + 1,
               randomBelow(DrawAt(cycle, 9 * i + 2), 28) + 1, ahead)>>,
      <<colTotalSpent, NatToString(randomBelow(DrawAt(cycle, 9 * i + 3), 2000) + 50)>>,
      <<<<"o", "r", "d", "e", "r", "_", "c", "o", "u", "n", "t">>,
        NatToString(randomBelow(DrawAt(cycle, 9 * i + 4), 20) + 1)>>,
      <<<<"l", "a", "s", "t", "_", "p", "u", "r", "c", "h", "a", "s", "e", "_", "d", "a", "t", "e">>,
        isoDay(2024, randomBelow(DrawAt(cycle, 9 * i + 5), 12) + 1,
               randomBelow(DrawAt(cycle, 9 * i + 6), 28) + 1, ahead)>>,
      <<<<"c", "i", "t", "y">>, Cities[randomBelow(DrawAt(cycle, 9 * i + 7), 8) + 1]>>,
      <<colSegment, SampleSegments[randomBelow(DrawAt(cycle, 9 * i + 8), 3) + 1]>>>>

sampleData(cycle, ahead) ==
    Array([i \in 1..SampleRows |-> sampleRecord(i - 1, cycle, ahead)])

\* Every Table loadSampleData can generate from the model's results of
\* Math.random(), with the side of UTC the browser is on
SampleTables ==
    {[ahead |-> ahead, rows |-> sampleData(cycle, ahead)] :
        cycle \in ScatterCycles, ahead \in BOOLEAN}

\* new File(['sample'], 'sample_customers.csv', { type: 'text/csv' })
SampleFile ==
    [name |-> <<"s", "a", "m", "p", "l", "e", "_", "c", "u", "s", "t", "o", "m", "e", "r", "s",
                ".", "c", "s", "v">>,
     type |-> <<"t", "e", "x", "t", "/", "c", "s", "v">>,
     text |-> <<"s", "a", "m", "p", "l", "e">>]

----------------------------------------------------------------------------
(* The page: Index holds the Table (customerData) and hands it to           *)
(* AnalyticsDashboard as `data`; the dashboard recomputes insights on       *)
(* every change of it.                                                      *)

Present(rows) == [isNull |-> FALSE, rows |-> rows]

Absent == [isNull |-> TRUE, rows |-> <<>>]

\* useMemo(() => ..., [data]) after `data` became d
Recompute(d) ==
    \E out \in Analyze(strategy, d) :
        /\ insights' = out.insights
        /\ memo' = out.memo

----------------------------------------------------------------------------
Init ==
    /\ strategy \in {"kmeans", "rfm"}
    /\ data = Present(<<>>)
    /\ insights = NoInsights
    /\ memo = NoMemo
    /\ uploadedFile = NoFile
    /\ isLoading = FALSE
    /\ reading = <<>>
    /\ toasts = <<>>

\* A CSV File whose text is not looked at
CsvFile == [name |-> <<"d", "a", "t", "a", ".", "c", "s", "v">>, type |-> <<"t", "e", "x", "t", "/", "c", "s", "v">>]

\* handleFile with a CSV File read and parsed to the Table t, the read taken
\* as one step: setUploadedFile(file), Index.handleFileUpload(data) and the
\* notification.  The upload panel shows its drop zone only while no file is
\* loaded.
handleFileUpload ==
    /\ uploadedFile.isNull
    /\ reading = <<>>
    /\ \E t \in Tables(strategy) :
        /\ data' = Present(t)
        /\ Recompute(data')
    /\ uploadedFile' = FileShown(CsvFile)
    /\ toasts' = <<FileUploaded>>
    /\ UNCHANGED <<strategy, isLoading, reading>>

\* FileUpload.removeFile, the button of the loaded file's card:
\* setUploadedFile(null); onFileUpload([])
removeFile ==
    /\ ~uploadedFile.isNull
    /\ uploadedFile' = NoFile
    /\ data' = Present(<<>>)
    /\ Recompute(data')
    /\ toasts' = <<>>
    /\ UNCHANGED <<strategy, isLoading, reading>>

Next ==
    \/ handleFileUpload
    \/ removeFile

Spec == Init /\ [][Next]_vars

----------------------------------------------------------------------------
(* The rule-based scoring as a function of a Table and of the results of    *)
(* Math.random(): the inputs are drawn first, the build is then applied to  *)
(* them.                                                                    *)

\* Amounts on both sides of every monetary threshold
ScoreAmounts ==
    <<rawMinusThree, rawText, <<"5", "0">>, <<"5", "0", ".", "5">>, <<"2", "0", "0">>,
      <<"2", "0", "1">>, <<"5", "0", "0">>, <<"5", "0", "1">>, <<"1", "0", "0", "0">>,
      <<"1", "0", "0", "1">>, rawInfinity>>

\* Days since the last purchase on both sides of every recency threshold
ScoreRecencies == {0, 29, 30, 89, 90, 179, 180, 364}

\* Purchase counts on both sides of every frequency threshold
ScoreFrequencies == {1, 2, 3, 5, 6, 10, 11, 15, 16, 20}

\* Two records with an amount each
ScoreTables ==
    {<<MkRow(<<colTotalSpent>>, <<ScoreAmounts[pair[1]]>>),
       MkRow(<<colTotalSpent>>, <<ScoreAmounts[pair[2]]>>)>> :
        pair \in {p \in (DOMAIN ScoreAmounts) \X (DOMAIN ScoreAmounts) : p[1] <= p[2]}}

\* Results of Math.random() that give the recency and the frequency:
\* Math.floor(x * 365) and Math.floor(x * 20) + 1
ScoreDraws ==
    {<<Zero, Decimal(2 * recency + 1, 730), Decimal(2 * frequency - 1, 40)>> :
        recency \in ScoreRecencies, frequency \in ScoreFrequencies}

ScoreInit ==
    /\ strategy = "rfm"
    /\ data = Present(<<>>)
    /\ insights = NoInsights
    /\ uploadedFile = NoFile
    /\ isLoading = FALSE
    /\ reading = <<>>
    /\ toasts = <<>>
    /\ memo \in {[kind |-> "inputs", table |-> t, draw |-> draw] :
                    t \in ScoreTables, draw \in ScoreDraws}

\* The rule-based build applied to the drawn Table, every record with the
\* drawn results of Math.random()
scoreTable ==
    /\ memo.kind = "inputs"
    /\ data' = Present(memo.table)
    /\ \E out \in {RfmSnapshot(memo.table, amountFields(fields(memo.table)),
                                [index \in 1..Len(memo.table) |-> memo.draw])} :
        /\ insights' = out.insights
        /\ memo' = out.memo
    /\ UNCHANGED <<strategy, uploadedFile, isLoading, reading, toasts>>

ScoreNext == scoreTable

ScoreSpec == ScoreInit /\ [][ScoreNext]_vars

----------------------------------------------------------------------------
(* The page with the upload panel's own steps: a File is dropped or chosen, *)
(* its text arrives later, and the sample data can be loaded at any time.   *)

\* The handleFile calls that may await their text at once
MaxReading == 2

\* The Files dropped: well-formed ones, one with quotes, margins, CRLF, a
\* blank line and a short line, one with a long line, ones with header names
\* that are no plain keys, ones without a data row, and one that is no CSV
\* by type or name
Files ==
    {[name |-> <<"p", "l", "a", "i", "n", ".", "c", "s", "v">>,
      type |-> <<"t", "e", "x", "t", "/", "c", "s", "v">>,
      text |-> <<"n", "a", "m", "e", ",", "A", "m", "o", "u", "n", "t", "\n", "a", "b", "c", ",", "7", "\n">>],
     [name |-> <<"q", "u", "o", "t", "e", "d", ".", "c", "s", "v">>,
      type |-> <<>>,
      text |-> <<"\"", "A", "m", "o", "u", "n", "t", "\"", ",", " ", "a", "g", "e", " ", "\r", "\n", " ", "\"", "7", "\"", " ", ",", "3", "\r", "\n", "\r", "\n", "-", "3", "\r", "\n">>],
     [name |-> <<"e", "x", "p", "o", "r", "t", ".", "t", "x", "t">>,
      type |-> <<"t", "e", "x", "t", "/", "c", "s", "v">>,
      text |-> <<"A", "m", "o", "u", "n", "t", "\n", "7", ",", "8", "\n">>],
     [name |-> <<"p", "r", "o", "t", "o", ".", "c", "s", "v">>,
      type |-> <<"t", "e", "x", "t", "/", "c", "s", "v">>,
      text |-> <<"_", "_", "p", "r", "o", "t", "o", "_", "_", ",", "A", "m", "o", "u", "n", "t", "\n", "1", ",", "7">>],
     [name |-> <<"k", "e", "y", "s", ".", "c", "s", "v">>,
      type |-> <<"t", "e", "x", "t", "/", "c", "s", "v">>,
      text |-> <<"b", ",", "1", ",", "b", "\n", "x", ",", "y", ",", "z">>],
     [name |-> <<"h", "e", "a", "d", "e", "r", ".", "c", "s", "v">>,
      type |-> <<"t", "e", "x", "t", "/", "c", "s", "v">>,
      text |-> <<"A", "m", "o", "u", "n", "t", "\n", " ", "\n">>],
     [name |-> <<"e", "m", "p", "t", "y", ".", "c", "s", "v">>,
      type |-> <<"t", "e", "x", "t", "/", "c", "s", "v">>,
      text |-> <<>>],
     [name |-> <<"n", "o", "t", "e", "s", ".", "t", "x", "t">>,
      type |-> <<"t", "e", "x", "t", "/", "p", "l", "a", "i", "n">>,
      text |-> <<"A", "m", "o", "u", "n", "t", "\n", "7">>]}

\* parseCSV on the text of each File
Parsed == {[file |-> file, csv |-> parseCSV(file.text)] : file \in Files}

\* The Tables the panel hands to the page
PageTables ==
    {p.csv.rows : p \in {p \in Parsed : p.csv.ok}} \cup {t.rows : t \in SampleTables}

\* The useMemo callback on each of them, for either build
PageAnalyses ==
    UNION {{[strategy |-> st, rows |-> rows, out |-> out] :
                out \in Analyze(st, Present(rows))} :
            st \in {"kmeans", "rfm"}, rows \in PageTables}

\* useMemo(() => ..., [data]) after `data` became one of these Tables; a
\* Table generated ahead of UTC is not analysed behind UTC.
RecomputeFor(d, ahead) ==
    \E a \in PageAnalyses :
        /\ a.strategy = strategy
        /\ a.rows = d.rows
        /\ ("env" \in DOMAIN a.out.memo /\ ahead) => ~a.out.memo.env.west
        /\ insights' = a.out.insights
        /\ memo' = a.out.memo

\* handleFile up to `await file.text()`: the type check with its
\* notification, or setIsLoading(true).  The drop zone and the file input
\* are rendered while no file is loaded; isLoading disables the button, not
\* the drop zone.
handleFileOf(file) ==
    /\ uploadedFile.isNull
    /\ Len(reading) < MaxReading
    /\ IF ~IsCsvFile(file)
       THEN /\ toasts' = <<InvalidFileType>>
            /\ UNCHANGED <<isLoading, reading>>
       ELSE /\ isLoading' = TRUE
            /\ reading' = Append(reading, file)
            /\ toasts' = <<>>
    /\ UNCHANGED <<strategy, data, insights, memo, uploadedFile>>

\* handleDrop and handleFileSelect: handleFile(files[0])
handleFile == \E file \in Files : handleFileOf(file)

\* The reading without its i-th call
Without(s, i) == SubSeq(s, 1, i - 1) \o SubSeq(s, i + 1, Len(s))

\* handleFile from the arrival of the text on, for any of the calls that
\* wait: parseCSV, then setUploadedFile(file), onFileUpload(data) and the
\* notification of success, or the notification of the error thrown; and
\* setIsLoading(false) in either case.
handleFileTextOf(i) ==
    /\ reading' = Without(reading, i)
    /\ isLoading' = FALSE
    /\ \E p \in Parsed :
        /\ p.file = reading[i]
        /\ IF p.csv.ok /\ Len(p.csv.rows) # 0
           THEN /\ uploadedFile' = FileShown(reading[i])
                /\ data' = Present(p.csv.rows)
                /\ RecomputeFor(data', FALSE)
                /\ toasts' = <<FileUploaded>>
           ELSE /\ toasts' = <<ErrorParsingCsv>>
                /\ UNCHANGED <<data, insights, memo, uploadedFile>>
    /\ UNCHANGED strategy

handleFileText == \E i \in 1..Len(reading) : handleFileTextOf(i)

\* loadSampleData, the button below the panel: the generated Table goes to
\* the dashboard, which runs on the same side of UTC as the generation.
loadSampleData ==
    /\ \E t \in SampleTables :
        /\ data' = Present(t.rows)
        /\ RecomputeFor(data', t.ahead)
    /\ uploadedFile' = FileShown(SampleFile)
    /\ toasts' = <<SampleLoaded>>
    /\ UNCHANGED <<strategy, isLoading, reading>>

PageNext ==
    \/ handleFile
    \/ handleFileText
    \/ removeFile
    \/ loadSampleData

PageSpec == Init /\ [][PageNext]_vars

----------------------------------------------------------------------------
(* Properties *)

\* The dashboard holds a Table of at least one record.
NonEmptyTable == ~data.isNull /\ data.rows # <<>>

\* The analysis returned an InsightsSnapshot.
HasSnapshot == insights.kind = "snapshot"

RECURSIVE ValueTotal(_)
ValueTotal(sd) == IF sd = <<>> THEN 0 ELSE Head(sd).value + ValueTotal(Tail(sd))

RECURSIVE PercentageTotal(_)
PercentageTotal(sd) ==
    IF sd = <<>> THEN 0 ELSE IntegerOf(Head(sd).percentage) + PercentageTotal(Tail(sd))

\* C1: whenever the analysis of a Table returns a snapshot, in the k-means
\* build and in the RFM build, every record is counted in exactly one segment:
\* each entry of segmentData counts the enriched records that carry its name,
\* every record's segment has an entry, the counts add up to the Table's
\* record count, and no two entries share a name.
C1_SegmentsPartitionTable ==
    HasSnapshot =>
        LET sd == insights.segmentData
            cs == insights.customerSegments
        IN  /\ ValueTotal(sd) = Len(data.rows)
            /\ \A e, f \in 1..Len(sd) : sd[e].name = sd[f].name => e = f
            /\ \A e \in 1..Len(sd) :
                    sd[e].value = Cardinality({i \in 1..Len(cs) : cs[i].segment = sd[e].name})
            /\ \A i \in 1..Len(cs) : \E e \in 1..Len(sd) : sd[e].name = cs[i].segment

\* Three records in three clusters, two of which were given the same name:
\* the two clusters are counted in one entry.
C1_Witness ==
    /\ HasSnapshot /\ strategy = "kmeans"
    /\ Len(data.rows) = 3
    /\ Len(insights.segmentData) = 2
    /\ \E i, j \in 1..3 :
            /\ insights.customerSegments[i].cluster # insights.customerSegments[j].cluster
            /\ insights.customerSegments[i].segment = insights.customerSegments[j].segment

\* C2: in every snapshot each segment's percentage is the integer nearest to
\* 100 * count / recordCount (a half rounds up), and the percentages add up
\* to 100 give or take the number of segments.
C2_PercentagesRounded ==
    HasSnapshot =>
        LET sd == insights.segmentData
            n  == Len(data.rows)
        IN  /\ \A e \in 1..Len(sd) :
                    sd[e].percentage = Num((200 * sd[e].value + n) \div (2 * n))
            /\ Abs(PercentageTotal(sd) - 100) <= Len(sd)

\* The analysis left by an exception.
HasThrown == insights.kind = "threw"

\* The k-means build returned a snapshot: memo holds the callback's arrays.
HasKMeansSnapshot == HasSnapshot /\ strategy = "kmeans"

\* C3: an empty Table and an absent Table give the "no data" sentinel, and
\* every Table of at least one record gives a snapshot.
C3_SentinelOrSnapshot ==
    /\ Analyze(strategy, Absent) = {[insights |-> NoInsights, memo |-> NoMemo]}
    /\ (~data.isNull /\ data.rows = <<>>) => insights = NoInsights
    /\ NonEmptyTable => HasSnapshot

\* Every value of every amount column fails to parse.
GarbageAmounts ==
    \A i \in 1..Len(data.rows) : \A f \in Range(memo.amountFields) :
        IsNaN(parseFloat(Get(data.rows[i], f)))

\* C4: the analysis never ends in an exception, whatever the columns and the
\* values of the Table, and a snapshot of a Table whose amount columns hold
\* only text that does not parse has totalRevenue = 0.
C4_NoException ==
    /\ ~HasThrown
    /\ (HasSnapshot /\ GarbageAmounts) => insights.totalRevenue = Zero

\* The amount of a record as the claim defines it
ParsedAmount(af, customer) ==
    IF af = <<>> \/ IsNaN(parseFloat(Get(customer, af[1]))) THEN Zero
    ELSE parseFloat(Get(customer, af[1]))

\* The sum of `monetary` over the enriched records lo..hi, added to `sum` in
\* record order
RECURSIVE MonetarySum(_, _, _, _)
MonetarySum(cs, sum, lo, hi) ==
    IF IsNaN(sum) \/ lo > hi THEN sum
    ELSE IF lo = hi THEN Add(sum, cs[lo].monetary)
    ELSE MonetarySum(cs, MonetarySum(cs, sum, lo, (lo + hi) \div 2),
                     (lo + hi) \div 2 + 1, hi)

\* C5: in every snapshot each enriched record's monetary is the parsed number
\* of its value in amountFields[0], 0 when that does not parse or there is no
\* amount field; totalRevenue is the sum of monetary over the enriched
\* records; and avgOrderValue is totalRevenue / recordCount.
C5_RevenueIsSumOfAmounts ==
    HasSnapshot =>
        LET cs == insights.customerSegments
        IN  /\ \A i \in 1..Len(cs) :
                    cs[i].monetary = ParsedAmount(memo.amountFields, data.rows[i])
            /\ insights.totalRevenue = MonetarySum(cs, Zero, 1, Len(cs))
            /\ insights.avgOrderValue =
                    Div(insights.totalRevenue, Num(Len(data.rows)))

\* The name holds one of the keywords, whatever the case of its letters.
NameHas(f, keywords) == \E kw \in keywords : includes(toLowerCase(f), kw)

\* fs[c] is the first name of fs that holds "email", or the first name of fs
\* when none does.
IsIdentifierOf(fs, c) ==
    \/ NameHas(fs[c], {kwEmail}) /\ \A b \in 1..(c - 1) : ~NameHas(fs[b], {kwEmail})
    \/ c = 1 /\ \A b \in 1..Len(fs) : ~NameHas(fs[b], {kwEmail})

AmountKeywords == {kwAmount, kwRevenue, kwValue, kwTotal}

DateKeywords == {kwDate, kwTime, kwCreated}

\* The names of fs that hold one of the keywords, in the order of fs
NamedBy(fs, keywords) ==
    LET Named(f) == NameHas(f, keywords)
    IN  SelectSeq(fs, Named)

\* C7: amountFields is the sub-sequence, in schema order, of the columns
\* whose lowercased name contains "amount", "revenue", "value" or "total", and
\* dateFields the sub-sequence of those whose lowercased name contains
\* "date", "time" or "created"; both are decided by the column names alone.
C7_FieldsByKeyword ==
    NonEmptyTable =>
        /\ memo.amountFields = NamedBy(ObjectKeys(data.rows[1]), AmountKeywords)
        /\ memo.dateFields = NamedBy(ObjectKeys(data.rows[1]), DateKeywords)

\* A column that is both an amount and a date column, before one that is an
\* amount column by "total" alone.
C7_Witness ==
    /\ NonEmptyTable
    /\ ObjectKeys(data.rows[1]) = <<colValueDate, colTotalSpent>>
    /\ memo.amountFields = <<colValueDate, colTotalSpent>>
    /\ memo.dateFields = <<colValueDate>>

\* The first min(100, n) places of a Table of n records
Sampled(d) == 1..(IF Len(d) < 100 THEN Len(d) ELSE 100)

\* The columns of d with a sampled value that `Qualifies` accepts
ColumnsWith(d, Qualifies(_)) ==
    LET Test(f) == \E i \in Sampled(d) : Qualifies(Get(d[i], f))
    IN  SelectSeq(ObjectKeys(d[1]), Test)

\* The parse of the Feature Extractor gives a finite number.
ParsesFinite(val) == IsFiniteNum(parseFloat(val))

\* The start of the value parses, and the whole value is a finite number.
WholeFinite(val) == ~IsNaN(parseFloat(val)) /\ IsFiniteNum(ToNumber(val))

\* C8 (as stated): a column is in numericFields if and only if one of its
\* values in the first min(100, n) records parses, by the parse of the
\* Feature Extractor, as a finite number.
C8_FiniteParseDecides ==
    HasKMeansSnapshot => memo.numericFields = ColumnsWith(data.rows, ParsesFinite)

\* C8 (amended): a column is in numericFields if and only if one of its
\* values in the first min(100, n) records both starts with a number
\* (parseFloat is not NaN) and is, as a whole string, a finite number
\* (isFinite); other values do not disqualify the column, and values after
\* the first 100 records have no influence.
C8_NumericFieldsSampled ==
    HasKMeansSnapshot => memo.numericFields = ColumnsWith(data.rows, WholeFinite)

\* 101 records whose only number is in the last one: the column is not
\* numeric.
C8_Witness ==
    /\ HasKMeansSnapshot
    /\ Len(data.rows) = 101
    /\ Get(data.rows[101], colAge) = rawSeven
    /\ memo.numericFields = <<>>

\* The parsed value, 0 when the value does not parse
ParsedOrZero(val) == IF IsNaN(parseFloat(val)) THEN Zero ELSE parseFloat(val)

\* No entry of the matrix is NaN.
NoNaN(m) == \A i \in 1..Len(m) : \A j \in 1..Len(m[i]) : ~IsNaN(m[i][j])

\* C9: every record's feature vector has one entry per numericFields column,
\* in that order, the parsed value of the column or 0 when it does not parse;
\* no entry of a feature vector or of the normalized matrix is NaN.
C9_FeaturesNeverNaN ==
    HasKMeansSnapshot =>
        LET nf == memo.numericFields
            cd == memo.clusteringData
            cs == insights.customerSegments
        IN  /\ Len(cd) = Len(data.rows)
            /\ \A i \in 1..Len(cd) :
                /\ Len(cd[i]) = Len(nf) /\ Len(cs[i].features) = Len(nf)
                /\ \A j \in 1..Len(nf) :
                    /\ cd[i][j] = ParsedOrZero(Get(data.rows[i], nf[j]))
                    /\ cs[i].features[j] = cd[i][j]
            /\ NoNaN(cd)
            /\ NoNaN(memo.normalizedData)

\* Every entry of column j of the matrix is the same.
IsConstantColumn(m, j) == \A i \in 1..Len(m) : m[i][j] = m[1][j]

\* C10: the normalized matrix has the shape of the feature matrix; a column
\* whose values are all equal is all zeros, every other entry is
\* (raw - column mean) / population standard deviation; a matrix without
\* rows or without columns is returned unchanged.
C10_NormalizedColumns ==
    HasKMeansSnapshot =>
        LET cd == memo.clusteringData
            nd == memo.normalizedData
        IN  IF Len(cd) = 0 \/ Len(cd[1]) = 0 THEN nd = cd
            ELSE /\ Len(nd) = Len(cd)
                 /\ \A i \in 1..Len(cd) : Len(nd[i]) = Len(cd[i])
                 /\ \A j \in 1..Len(cd[1]) :
                        IF IsConstantColumn(cd, j)
                        THEN \A i \in 1..Len(cd) : nd[i][j] = Zero
                        ELSE \A i \in 1..Len(cd) :
                                nd[i][j] = Div(Sub(cd[i][j], Mean(cd, j)),
                                               Deviation(cd, j, Mean(cd, j)))

\* The cluster ids that occur in an assignment
ClusterIds(clusters) == {clusters[i] : i \in 1..Len(clusters)}

\* C11: in the k-means build k = min(5, recordCount), every record has one
\* cluster id in 0..k-1, at most k distinct ids and at most as many distinct
\* segment names occur, and a Table of one record gives a single segment
\* with 100% of the records.
C11_ClustersWithinK ==
    HasKMeansSnapshot =>
        LET n  == Len(data.rows)
            cl == memo.clusters
            cs == insights.customerSegments
            sd == insights.segmentData
        IN  /\ memo.k = (IF n < 5 THEN n ELSE 5)
            /\ Len(cl) = n
            /\ \A i \in 1..n : cl[i] \in 0..(memo.k - 1) /\ cs[i].cluster = cl[i]
            /\ Cardinality(ClusterIds(cl)) <= memo.k
            /\ Len(sd) <= Cardinality(ClusterIds(cl))
            /\ n = 1 => Len(sd) = 1 /\ sd[1].value = 1 /\ sd[1].percentage = Num(100)

\* A Table of one record with a numeric column: k = 1, one segment, 100%.
C11_Witness ==
    /\ HasKMeansSnapshot
    /\ Len(data.rows) = 1
    /\ memo.numericFields # <<>>
    /\ memo.k = 1
    /\ insights.segmentData[1].percentage = Num(100)

\* More records than clusters: 40 records in at most 5 clusters.
C11_WitnessMany ==
    /\ HasKMeansSnapshot
    /\ Len(data.rows) > 5
    /\ memo.k = 5
    /\ Cardinality(ClusterIds(memo.clusters)) = 2

\* C12: when the Table has no numeric field the clustering routine is not
\* run on the data: every record has cluster id 0 and all the records are in
\* one segment.
C12_NoClusteringWithoutNumericField ==
    (HasKMeansSnapshot /\ memo.numericFields = <<>>) =>
        /\ ~memo.kmeansCalled
        /\ \A i \in 1..Len(data.rows) : insights.customerSegments[i].cluster = 0
        /\ Len(insights.segmentData) = 1

\* C13: k-means segmentation is deterministic: every analysis of the Table
\* the dashboard holds gives every record the cluster id and the segment
\* name that the analysis shown gave it.
C13_SameTableSameClusters ==
    HasKMeansSnapshot =>
        \A run \in AnalyzeKMeans(data) :
            /\ run.memo.clusters = memo.clusters
            /\ \A i \in 1..Len(data.rows) :
                    run.insights.customerSegments[i].segment
                        = insights.customerSegments[i].segment

\* The name the claim gives a cluster of mean M and size ratio r, for the
\* global mean G
NameByValue(M, G, r) ==
    IF Gt(M, Mul(G, Decimal(15, 10)))
    THEN (IF Gt(r, Decimal(15, 100)) THEN nmHighValue ELSE nmPremium)
    ELSE IF Gt(M, Mul(G, Decimal(8, 10)))
    THEN (IF Gt(r, Decimal(25, 100)) THEN nmCoreCustomers ELSE nmRegular)
    ELSE IF Gt(M, Mul(G, Decimal(3, 10))) THEN nmPotentialGrowth
    ELSE IF Gt(r, Decimal(2, 10)) THEN nmEntryLevel
    ELSE nmAtRisk

\* The mean of column idx of the feature matrix over the records of cluster c
MeanOfCluster(cd, idx, clusters, c) ==
    Div(ClusterSum(cd, clusters, c, idx, Zero, 1, Len(cd)), Num(ClusterSize(clusters, c)))

\* The share of the records that are in cluster c
SizeRatio(clusters, c) == Div(Num(ClusterSize(clusters, c)), Num(Len(clusters)))

\* The namer found a primary-value feature among the numeric fields.
HasPrimaryValue ==
    HasKMeansSnapshot /\ primaryValueFieldIdx(memo.numericFields, memo.amountFields) > 0

\* The non-empty clusters of the snapshot, by ascending id: the clusters
\* the namer computes a name for, in the order of its names
NamedClusters == NonEmptyClusters(memo.clusters, memo.k, 0)

NameBySize(r) ==
    IF Gt(r, Decimal(3, 10)) THEN nmMajoritySegment
    ELSE IF Gt(r, Decimal(2, 10)) THEN nmSignificantGroup
    ELSE IF Gt(r, Decimal(1, 10)) THEN nmNicheSegment
    ELSE nmEmergingGroup

\* The name the claims give cluster c when column idx of the feature matrix
\* is the primary-value feature (idx = 0: there is none)
NameOfCluster(idx, c) ==
    IF idx > 0
    THEN NameByValue(MeanOfCluster(memo.clusteringData, idx, memo.clusters, c),
                     Div(ColumnSum(memo.clusteringData, idx, Zero, 1, Len(data.rows)),
                         Num(Len(data.rows))),
                     SizeRatio(memo.clusters, c))
    ELSE NameBySize(SizeRatio(memo.clusters, c))

\* C15: when no amount column is among numericFields (numericFields may be
\* empty), every record's segment name is the size-only name of its cluster,
\* one of "Majority Segment", "Significant Group", "Niche Segment" and
\* "Emerging Group".
C15_SizeOnlyNames ==
    (HasKMeansSnapshot /\ ~HasPrimaryValue) =>
        \A i \in 1..Len(data.rows) :
            /\ insights.customerSegments[i].segment = NameOfCluster(0, memo.clusters[i])
            /\ insights.customerSegments[i].segment \in
                    {nmMajoritySegment, nmSignificantGroup, nmNicheSegment, nmEmergingGroup}

\* The place of amountFields[0] among numericFields, 0 when it is not there
PrimaryAmountIdx ==
    IF memo.amountFields = <<>> THEN 0
    ELSE IF \E j \in 1..Len(memo.numericFields) : memo.numericFields[j] = memo.amountFields[1]
    THEN CHOOSE j \in 1..Len(memo.numericFields) : memo.numericFields[j] = memo.amountFields[1]
    ELSE 0

\* C16: the namer's primary-value feature is amountFields[0] when that column
\* is in numericFields; otherwise the clusters are named by size only.
C16_PrimaryValueIsFirstAmount ==
    (HasKMeansSnapshot /\ memo.numericFields # <<>>) =>
        \A s \in 1..Len(memo.segmentNames) :
            memo.segmentNames[s] = NameOfCluster(PrimaryAmountIdx, NamedClusters[s])

\* C17: every record of cluster c carries the name computed from cluster c's
\* own mean and size ratio, whatever clusters are empty, so two records of
\* the same cluster have the same segment name.
C17_OneNamePerCluster ==
    (HasKMeansSnapshot /\ memo.numericFields # <<>>) =>
        \A i \in 1..Len(data.rows) :
            /\ insights.customerSegments[i].segment =
                    NameOfCluster(primaryValueFieldIdx(memo.numericFields, memo.amountFields),
                                  memo.clusters[i])
            /\ \A j \in 1..Len(data.rows) :
                    memo.clusters[i] = memo.clusters[j] =>
                        insights.customerSegments[i].segment
                            = insights.customerSegments[j].segment

\* The primary date value of record i
DateValue(i) == Get(data.rows[i], memo.dateFields[1])

\* Record i's primary date value parses in the run's environment
DateParses(i) == DateOf(DateValue(i), memo.env).valid

\* The calendar month a date value names, counted in months from year 0
MonthIndex(s) ==
    IF IsIsoDate(s)
    THEN DigitsVal(s, 1, 5) * 12 + DigitsVal(s, 6, 8) - 1
    ELSE 2001 * 12 + DigitsVal(s, 1, Len(s) + 1) - 1

DatedRecords == {i \in 1..Len(data.rows) : DateParses(i)}

RecordsOfMonth(m) == {i \in DatedRecords : MonthIndex(DateValue(i)) = m}

\* The latest twelve of the calendar months of the parseable dates
LatestMonths ==
    LET months == {MonthIndex(DateValue(i)) : i \in DatedRecords}
    IN  {m \in months : Cardinality({o \in months : o > m}) < 12}

\* The month of LatestMonths with e - 1 of them before it
MonthAt(e) == CHOOSE m \in LatestMonths : Cardinality({o \in LatestMonths : o < m}) = e - 1

\* The sum of primaryAmount over the records i.. of month m, entered with `sum`
RECURSIVE MonthRevenue(_, _, _)
MonthRevenue(m, sum, i) ==
    IF i > Len(data.rows) THEN sum
    ELSE MonthRevenue(m,
                      IF i \in RecordsOfMonth(m)
                      THEN Add(sum, primaryAmount(memo.amountFields, data.rows[i]))
                      ELSE sum,
                      i + 1)

\* C18: when a date field exists and some record's primary date value
\* parses, monthlyData has one bucket for each of the latest twelve calendar
\* months of the parseable dates, in chronological order; a bucket's
\* customers is the number of records dated in its month, its revenue the
\* rounded sum of their primaryAmount; records whose date does not parse are
\* in no bucket.
C18_RealMonthlyTrend ==
    (HasKMeansSnapshot /\ memo.dateFields # <<>> /\ DatedRecords # {}) =>
        /\ Len(insights.monthlyData) = Cardinality(LatestMonths)
        /\ \A e \in 1..Len(insights.monthlyData) :
            /\ insights.monthlyData[e].month =
                    ShortMonths[(MonthAt(e) % 12) + 1] \o <<" ">>
                        \o PadStart2((MonthAt(e) \div 12) % 100)
            /\ insights.monthlyData[e].customers = Cardinality(RecordsOfMonth(MonthAt(e)))
            /\ insights.monthlyData[e].revenue = MathRound(MonthRevenue(MonthAt(e), Zero, 1))

\* C19: when a date field exists and no record's primary date value parses,
\* monthlyData is the synthetic trend of twelve buckets, as it is without a
\* date field; monthlyData is never empty for a non-empty Table.
C19_FallbackWhenNoDateParses ==
    HasKMeansSnapshot =>
        /\ insights.monthlyData # <<>>
        /\ (memo.dateFields # <<>> /\ DatedRecords = {}) =>
                /\ Len(insights.monthlyData) = MonthCount
                /\ \A e \in 1..MonthCount : insights.monthlyData[e].month = ShortMonths[e]

\* The sum of the revenues of the buckets e.. of a trend, entered with `sum`
RECURSIVE TrendRevenue(_, _, _)
TrendRevenue(md, sum, e) ==
    IF e > Len(md) THEN sum ELSE TrendRevenue(md, Add(sum, md[e].revenue), e + 1)

\* x lies between a and b, whichever of the two is the smaller, give or
\* take `slack`
Within(x, a, b, slack) ==
    /\ AtLeast(x, Sub(IF Lt(b, a) THEN b ELSE a, slack))
    /\ AtLeast(Add(IF Lt(b, a) THEN a ELSE b, slack), x)

RecordsNamed(name) ==
    {i \in 1..Len(insights.customerSegments) : insights.customerSegments[i].segment = name}

\* The first record that carries the segment name `name`
FirstNamed(name) == CHOOSE i \in RecordsNamed(name) : \A j \in RecordsNamed(name) : i <= j

SegmentNamesUsed ==
    {insights.customerSegments[i].segment : i \in 1..Len(insights.customerSegments)}

\* C21: topSegment is the name of a segment of segmentData with the highest
\* count; among the segments that tie for the highest count it is the one
\* whose first record comes earliest in the Table; it is the name of a
\* segment that exists, never a placeholder.
C21_TopSegmentIsLargest ==
    HasSnapshot =>
        /\ \E e \in 1..Len(insights.segmentData) :
                /\ insights.segmentData[e].name = insights.topSegment
                /\ insights.segmentData[e].value = Cardinality(RecordsNamed(insights.topSegment))
        /\ insights.topSegment \in SegmentNamesUsed
        /\ \A name \in SegmentNamesUsed :
            /\ Cardinality(RecordsNamed(name)) <= Cardinality(RecordsNamed(insights.topSegment))
            /\ Cardinality(RecordsNamed(name)) = Cardinality(RecordsNamed(insights.topSegment))
                    => FirstNamed(insights.topSegment) <= FirstNamed(name)

\* Two segments tie, and the top segment is the one of the first record.
C21_Witness ==
    /\ HasSnapshot
    /\ Cardinality(SegmentNamesUsed) = 2
    /\ \A name \in SegmentNamesUsed :
            Cardinality(RecordsNamed(name)) = Cardinality(RecordsNamed(insights.topSegment))
    /\ insights.topSegment = insights.customerSegments[1].segment

\* The build is the rule-based one.
IsRfm == HasSnapshot /\ memo.kind = "rfm"

\* The scores and the segment of the claim, in exact arithmetic
ClaimedRecencyScore(recency) ==
    IF recency < 30 THEN 5 ELSE IF recency < 90 THEN 4
    ELSE IF recency < 180 THEN 3 ELSE IF recency < 365 THEN 2 ELSE 1

ClaimedFrequencyScore(frequency) ==
    IF frequency > 15 THEN 5 ELSE IF frequency > 10 THEN 4
    ELSE IF frequency > 5 THEN 3 ELSE IF frequency > 2 THEN 2 ELSE 1

ClaimedMonetaryScore(monetary) ==
    IF Gt(monetary, Num(1000)) THEN 5 ELSE IF Gt(monetary, Num(500)) THEN 4
    ELSE IF Gt(monetary, Num(200)) THEN 3 ELSE IF Gt(monetary, Num(50)) THEN 2 ELSE 1

\* The rank of the average of three scores of sum `sum`: 6 for an average of
\* at least 4.5, then 4.0, 3.5, 3.0 and 2.0, and 1 below 2.0
ClaimedRank(sum) ==
    IF 2 * sum >= 27 THEN 6 ELSE IF sum >= 12 THEN 5 ELSE IF 2 * sum >= 21 THEN 4
    ELSE IF sum >= 9 THEN 3 ELSE IF sum >= 6 THEN 2 ELSE 1

RfmSegmentNames ==
    <<nmLostCustomers, nmNeedAttention, nmAtRisk, nmPotentialLoyalists,
      nmLoyalCustomers, nmChampions>>

RfmRank(name) == CHOOSE rank \in 1..6 : RfmSegmentNames[rank] = name

\* C22: every RFM score is an integer from 1 to 5 given by the fixed
\* thresholds on recency, frequency and monetary; the segment is the one of
\* the six names that the average of the three scores gives; and of two
\* records with the same recency and frequency the one with the larger
\* monetary never has the lower segment.
C22_RfmScoresAndSegment ==
    IsRfm =>
        /\ \A i \in 1..Len(insights.customerSegments) :
            /\ insights.customerSegments[i].rScore
                    = ClaimedRecencyScore(insights.customerSegments[i].recency)
            /\ insights.customerSegments[i].fScore
                    = ClaimedFrequencyScore(insights.customerSegments[i].frequency)
            /\ insights.customerSegments[i].mScore
                    = ClaimedMonetaryScore(insights.customerSegments[i].monetary)
            /\ insights.customerSegments[i].segment
                    = RfmSegmentNames[ClaimedRank(insights.customerSegments[i].rScore
                                                    + insights.customerSegments[i].fScore
                                                    + insights.customerSegments[i].mScore)]
        /\ \A i, j \in 1..Len(insights.customerSegments) :
            /\ insights.customerSegments[i].recency = insights.customerSegments[j].recency
            /\ insights.customerSegments[i].frequency = insights.customerSegments[j].frequency
            /\ Gt(insights.customerSegments[j].monetary, insights.customerSegments[i].monetary)
            => RfmRank(insights.customerSegments[j].segment)
                    >= RfmRank(insights.customerSegments[i].segment)

\* A record on a monetary threshold beside one just above it, the second a
\* segment higher
C22_Witness ==
    /\ IsRfm
    /\ Len(insights.customerSegments) = 2
    /\ insights.customerSegments[1].monetary = Num(500)
    /\ insights.customerSegments[2].monetary = Num(501)
    /\ insights.customerSegments[1].mScore = 3
    /\ insights.customerSegments[2].mScore = 4
    /\ RfmRank(insights.customerSegments[2].segment)
            > RfmRank(insights.customerSegments[1].segment)

\* C23: in the rule-based build every record's monetary is the parsed number
\* of its value in amountFields[0], 0 when that does not parse and 0 when the
\* Table has no amount column; the monetary values sum to totalRevenue; and
\* without an amount column every record has monetary score 1.
C23_RfmMonetaryIsPrimaryAmount ==
    IsRfm =>
        /\ \A i \in 1..Len(insights.customerSegments) :
            /\ insights.customerSegments[i].monetary
                    = ParsedAmount(memo.amountFields, data.rows[i])
            /\ memo.amountFields = <<>> => insights.customerSegments[i].mScore = 1
        /\ insights.totalRevenue
                = MonetarySum(insights.customerSegments, Zero, 1, Len(insights.customerSegments))

\* The snapshot is one of the k-means build with its scatter.
HasScatter == HasSnapshot /\ memo.kind = "kmeans"

\* The number of the record's value in the j-th numeric field, 0 when it is
\* no number
FieldValue(i, j) == OrZero(parseFloat(Get(data.rows[i], insights.numericFields[j])))

\* v is 100 times a result of Math.random() of the run, and so in [0, 100).
IsPlaceholder(v) ==
    /\ \E n \in DOMAIN memo.scatter : v = Mul(memo.scatter[n], Num(100))
    /\ AtLeast(v, Zero)
    /\ Lt(v, Num(100))

\* The scatter has one point per record, in record order, with the record's
\* cluster and segment.
PointPerRecord ==
    /\ Len(insights.clusterVisualizationData) = Len(data.rows)
    /\ \A i \in 1..Len(data.rows) :
        /\ insights.clusterVisualizationData[i].cluster = insights.customerSegments[i].cluster
        /\ insights.clusterVisualizationData[i].segment = insights.customerSegments[i].segment

\* C24 as stated: one point per record; with two numeric fields or more the
\* point is (first field's value, second field's value), with fewer than two
\* both coordinates are random placeholders in [0, 100).
C24_PlaceholdersBelowTwoFields ==
    HasScatter =>
        /\ PointPerRecord
        /\ \A i \in 1..Len(data.rows) :
            IF Len(insights.numericFields) >= 2
            THEN /\ insights.clusterVisualizationData[i].x = FieldValue(i, 1)
                 /\ insights.clusterVisualizationData[i].y = FieldValue(i, 2)
            ELSE /\ IsPlaceholder(insights.clusterVisualizationData[i].x)
                 /\ IsPlaceholder(insights.clusterVisualizationData[i].y)

\* C24, amended: one point per record, in record order, with the record's
\* cluster and segment; x is the record's value in the first numeric field
\* when there is a numeric field and a random placeholder in [0, 100)
\* otherwise; y is the record's value in the second numeric field when there
\* are two and a random placeholder in [0, 100) otherwise.
C24_ScatterPerCoordinate ==
    HasScatter =>
        /\ PointPerRecord
        /\ \A i \in 1..Len(data.rows) :
            /\ IF Len(insights.numericFields) >= 1
               THEN insights.clusterVisualizationData[i].x = FieldValue(i, 1)
               ELSE IsPlaceholder(insights.clusterVisualizationData[i].x)
            /\ IF Len(insights.numericFields) >= 2
               THEN insights.clusterVisualizationData[i].y = FieldValue(i, 2)
               ELSE IsPlaceholder(insights.clusterVisualizationData[i].y)

\* One numeric field: x is its value, which no placeholder is, and y is a
\* placeholder.
C24_Witness ==
    /\ HasScatter
    /\ Len(insights.numericFields) = 1
    /\ \E i \in 1..Len(data.rows) :
        /\ insights.clusterVisualizationData[i].x = FieldValue(i, 1)
        /\ ~IsPlaceholder(insights.clusterVisualizationData[i].x)
        /\ IsPlaceholder(insights.clusterVisualizationData[i].y)

\* The columns of the i-th input record that are not named as a derived
\* field of the k-means build
InputColumns(i) ==
    {data.rows[i][c] : c \in {c \in 1..Len(data.rows[i]) :
        data.rows[i][c][1] \notin {<<"i", "d">>, <<"c", "l", "u", "s", "t", "e", "r">>,
                                   <<"s", "e", "g", "m", "e", "n", "t">>,
                                   <<"m", "o", "n", "e", "t", "a", "r", "y">>,
                                   <<"f", "e", "a", "t", "u", "r", "e", "s">>}}}

CopiedColumns(i) ==
    {insights.customerSegments[i].customer[c] :
        c \in 1..Len(insights.customerSegments[i].customer)}

\* C25: customerSegments has one enriched record per input record, in Table
\* order, the i-th with id i; its cluster, segment, monetary and features are
\* the derived values whatever columns of those names the input record has;
\* and its other columns are the input record's, unchanged.
C25_EnrichedRecordPerInput ==
    HasScatter =>
        /\ Len(insights.customerSegments) = Len(data.rows)
        /\ \A i \in 1..Len(data.rows) :
            /\ insights.customerSegments[i].id = i
            /\ insights.customerSegments[i].cluster = memo.clusters[i]
            /\ insights.customerSegments[i].segment \in
                    {insights.segmentData[e].name : e \in 1..Len(insights.segmentData)}
            /\ insights.customerSegments[i].monetary
                    = ParsedAmount(memo.amountFields, data.rows[i])
            /\ Len(insights.customerSegments[i].features) = Len(insights.numericFields)
            /\ \A j \in 1..Len(insights.numericFields) :
                    insights.customerSegments[i].features[j] = FieldValue(i, j)
            /\ CopiedColumns(i) = InputColumns(i)
            /\ Len(insights.customerSegments[i].customer) = Cardinality(InputColumns(i))

\* A record with an `id` column of value 7 is the second enriched record,
\* with id 2 and its `name` column copied.
C25_Witness ==
    /\ HasScatter
    /\ Len(data.rows) = 2
    /\ <<colId, rawSeven>> \in {data.rows[2][c] : c \in 1..Len(data.rows[2])}
    /\ insights.customerSegments[2].id = 2
    /\ CopiedColumns(2) = {<<colName, rawSeven>>}

\* The customers of the buckets e.. of a trend, summed
RECURSIVE TrendCustomers(_, _)
TrendCustomers(md, e) ==
    IF e > Len(md) THEN 0 ELSE md[e].customers + TrendCustomers(md, e + 1)

\* C27: in the synthetic trend of twelve buckets every bucket's customers is
\* a non-negative integer of at most ceil(n / 12), and the twelve values sum
\* to n, the number of records of the Table.
C27_SyntheticCountsSpreadTable ==
    (HasKMeansSnapshot /\ memo.dateFields = <<>>) =>
        /\ \A e \in 1..Len(insights.monthlyData) :
            /\ insights.monthlyData[e].customers \in Nat
            /\ 12 * insights.monthlyData[e].customers < Len(data.rows) + 12
        /\ TrendCustomers(insights.monthlyData, 1) = Len(data.rows)

\* The File of the model that has the name shown
FileNamed(name) == CHOOSE file \in Files : file.name = name

\* A File that was dropped or chosen is shown as loaded.
CsvLoaded == ~uploadedFile.isNull /\ uploadedFile.name # SampleFile.name

\* The text of the loaded File
LoadedText == FileNamed(uploadedFile.name).text

\* The column names of the header line of the loaded File
HeaderNames == cells(lines(LoadedText)[1])

KeysOf(row) == {row[c][1] : c \in 1..Len(row)}

\* C26: the Table of a text of two non-blank lines or more has one record
\* for each non-blank line after the header, in line order; every record has
\* exactly the header's column names as keys, each with the value at its
\* place in the line, the empty string when the line is too short; and a
\* text of fewer than two non-blank lines is rejected.
C26_UniformSchema ==
    /\ \A file \in Files : parseCSV(file.text).ok = (Len(lines(file.text)) >= 2)
    /\ CsvLoaded =>
        /\ Len(data.rows) = Len(lines(LoadedText)) - 1
        /\ \A i \in 1..Len(data.rows) :
            /\ KeysOf(data.rows[i]) = {HeaderNames[j] : j \in 1..Len(HeaderNames)}
            /\ \A j \in 1..Len(HeaderNames) :
                (\A later \in (j + 1)..Len(HeaderNames) : HeaderNames[later] # HeaderNames[j])
                    => Get(data.rows[i], HeaderNames[j])
                            = ValueAt(cells(lines(LoadedText)[i + 1]), j)

\* C28: a File is shown as loaded exactly when the dashboard's Table has a
\* record; the Table is then the one parsed from that File's text, or one
\* that loadSampleData generates when the File shown is the sample's; and
\* with no File shown the dashboard has no data and no insights.
C28_FileAndTableAgree ==
    /\ ~data.isNull
    /\ uploadedFile.isNull = (data.rows = <<>>)
    /\ uploadedFile.isNull => insights = NoInsights
    /\ CsvLoaded =>
        /\ parseCSV(LoadedText).ok
        /\ parseCSV(LoadedText).rows = data.rows
    /\ (~uploadedFile.isNull /\ ~CsvLoaded) =>
        data.rows \in {t.rows : t \in SampleTables}

\* A File is shown with its Table while the text of another File, dropped
\* before the first one's text arrived, is still awaited.
C28_Witness ==
    /\ CsvLoaded
    /\ Len(reading) = 1
    /\ reading[1].name # uploadedFile.name
    /\ parseCSV(reading[1].text).ok
    /\ data.rows = parseCSV(LoadedText).rows

\* The File is no CSV by its type and by its name.
NotCsv(file) ==
    /\ ~includes(file.type, <<"c", "s", "v">>)
    /\ ~endsWith(file.name, <<".", "c", "s", "v">>)

\* The step raises one notification, of an error, and keeps the File shown,
\* the Table and the snapshot.
FailsQuietly ==
    /\ Len(toasts') = 1
    /\ toasts'[1].variant = "destructive"
    /\ UNCHANGED <<data, insights, memo, uploadedFile>>

\* C29: an upload that fails, the File being no CSV by type and name or its
\* text having fewer than two non-blank lines, hands no Table to the page,
\* keeps the File shown, the Table and the snapshot as they were, and raises
\* exactly one error notification.
C29_FailedUploadKeepsState ==
    [][/\ \A file \in Files : (NotCsv(file) /\ handleFileOf(file)) => FailsQuietly
       /\ \A i \in 1..Len(reading) :
            (Len(lines(reading[i].text)) < 2 /\ handleFileTextOf(i)) => FailsQuietly]_vars

\* The text of a second File had no data row: its error is notified while
\* the first File and its Table stay.
C29_Witness ==
    /\ toasts = <<ErrorParsingCsv>>
    /\ CsvLoaded
    /\ data.rows = parseCSV(LoadedText).rows
    /\ reading = <<>>

\* C30: isLoading is true exactly while at least one handleFile call has
\* started to read its File and has not finished.
C30_LoadingWhileReading == isLoading = (reading # <<>>)

====
